---- MODULE Spec2Model ----
(***************************************************************************)
(* SunLayer (examples/SunLayer2.js): the night-lights tile cache of one    *)
(* layer, the closures created by initialize(), the generation counter     *)
(* bumped on webglcontextlost, and the Besselian dataset selection done by *)
(* initialize() and used by update().                                      *)
(* Further parts: the solar position reductions and the sample loop of     *)
(* loadData, the fragment shader, and the CanvasLayer base class (its      *)
(* fields, frame requests and map listeners) in the variable `layer`.      *)
(*                                                                         *)
(* Instants are pairs <<seconds, tenths>> (the table's t0 values carry one *)
(* decimal); deltat is kept in tenths of a second.  Object identity of a   *)
(* cache entry (newCity) is its index in `cities`; identity of a closure   *)
(* (one run of initialize) is its index in `closures`.                     *)
(***************************************************************************)
EXTENDS Integers, Sequences, FiniteSets, TLC

\* ---- bounds of the model ----
MaxLost == 1         \* webglcontextlost events in one behaviour
MaxCity == 2         \* cache entries (rasters) allocated in one behaviour
MaxTimers == 2       \* timeouts of one closure that the browser holds at once

\* ---- program constants ----
NoCity == 0          \* null for loadedCity / textureUpdate
NoBessel == 0        \* null returned by getEclipseDefinition
resolutionScale == 1 \* window.devicePixelRatio || 1
MaxTileZoom == 8     \* if (zoom <= 8)
Sentinel == -10      \* elements.deltat = -1 (seconds), in tenths
NoTimer == 0         \* var updateTimeout = 0
Unset == -20         \* a uniform no update has written yet
\* windows wide enough to reach the neighbouring entries
WindowSecs_wide == 400 * 3600
WindowSecs == 4 * 3600

\* ---- instants ----
TLess(a, b) == a[1] < b[1] \/ (a[1] = b[1] /\ a[2] < b[2])
TAdd(a, secs) == <<a[1] + secs, a[2]>>
\* Math.abs(a - b) > secs
AbsDiffGreater(a, b, secs) == TLess(TAdd(b, secs), a) \/ TLess(TAdd(a, secs), b)
\* the instant `tenths` tenths of a second after a (before, if negative)
TShift(a, tenths) ==
  LET n == a[2] + tenths IN <<a[1] + (n \div 10), n % 10>>

all_bessel ==
  << [t0 |-> <<1488121131, 4>>, deltat |-> 686],
     [t0 |-> <<1503338331, 2>>, deltat |-> 688],
     [t0 |-> <<1518728330, 9>>, deltat |-> 691],
     [t0 |-> <<1531450730, 8>>, deltat |-> 692],
     [t0 |-> <<1533981530, 7>>, deltat |-> 693],
     [t0 |-> <<1546739930, 6>>, deltat |-> 694],
     [t0 |-> <<1562093930, 4>>, deltat |-> 696],
     [t0 |-> <<1577336328, 5>>, deltat |-> 715],
     [t0 |-> <<1592722728, 2>>, deltat |-> 718],
     [t0 |-> <<1607961527, 9>>, deltat |-> 721],
     [t0 |-> <<1623322727, 7>>, deltat |-> 723],
     [t0 |-> <<1638604727, 4>>, deltat |-> 726],
     [t0 |-> <<1651352327, 2>>, deltat |-> 728],
     [t0 |-> <<1666695526, 9>>, deltat |-> 731],
     [t0 |-> <<1681963126, 6>>, deltat |-> 734],
     [t0 |-> <<1697306326, 3>>, deltat |-> 737],
     [t0 |-> <<1712599126, 0>>, deltat |-> 740],
     [t0 |-> <<1727895525, 7>>, deltat |-> 743],
     [t0 |-> <<1743245925, 5>>, deltat |-> 745],
     [t0 |-> <<1758484725, 2>>, deltat |-> 748],
     [t0 |-> <<1771329524, 9>>, deltat |-> 751],
     [t0 |-> <<1786557524, 6>>, deltat |-> 754],
     [t0 |-> <<1801929524, 3>>, deltat |-> 757],
     [t0 |-> <<1817200724, 0>>, deltat |-> 760],
     [t0 |-> <<1832511523, 7>>, deltat |-> 763],
     [t0 |-> <<1847847523, 4>>, deltat |-> 766],
     [t0 |-> <<1863104323, 1>>, deltat |-> 769],
     [t0 |-> <<1875931122, 8>>, deltat |-> 772],
     [t0 |-> <<1878479922, 8>>, deltat |-> 772],
     [t0 |-> <<1891177122, 5>>, deltat |-> 775],
     [t0 |-> <<1906523922, 2>>, deltat |-> 778],
     [t0 |-> <<1921820321, 9>>, deltat |-> 781],
     [t0 |-> <<1937113121, 5>>, deltat |-> 785],
     [t0 |-> <<1952456321, 2>>, deltat |-> 788],
     [t0 |-> <<1967720320, 9>>, deltat |-> 791],
     [t0 |-> <<1983074320, 5>>, deltat |-> 795],
     [t0 |-> <<1995818320, 3>>, deltat |-> 797],
     [t0 |-> <<2011096719, 9>>, deltat |-> 801],
     [t0 |-> <<2026461519, 6>>, deltat |-> 804],
     [t0 |-> <<2041689519, 2>>, deltat |-> 808],
     [t0 |-> <<2057093918, 9>>, deltat |-> 811],
     [t0 |-> <<2072311118, 5>>, deltat |-> 815],
     [t0 |-> <<2087701118, 2>>, deltat |-> 818],
     [t0 |-> <<2100423517, 9>>, deltat |-> 821],
     [t0 |-> <<2102950717, 9>>, deltat |-> 821],
     [t0 |-> <<2115712717, 6>>, deltat |-> 824],
     [t0 |-> <<2131066717, 2>>, deltat |-> 828] >>

\* a scan that still returns an entry at the very end of its window
RECURSIVE EclipseScan_inclusive(_, _)
EclipseScan_inclusive(i, t) ==
  IF i > Len(all_bessel) THEN NoBessel
  ELSE IF ~TLess(TAdd(all_bessel[i].t0, WindowSecs), t) THEN i
  ELSE EclipseScan_inclusive(i + 1, t)

RECURSIVE EclipseScan(_, _)
EclipseScan(i, t) ==
  IF i > Len(all_bessel) THEN NoBessel
  ELSE IF TLess(t, TAdd(all_bessel[i].t0, WindowSecs)) THEN i
  ELSE EclipseScan(i + 1, t)

\* a selector that returns the entry whose window contains t, or none
getEclipseDefinition_containing(t) ==
  LET W == {j \in 1..Len(all_bessel) : ~AbsDiffGreater(t, all_bessel[j].t0, WindowSecs)}
  IN IF W = {} THEN NoBessel ELSE CHOOSE j \in W : TRUE

getEclipseDefinition(t) == EclipseScan(1, t)

\* getElements dereferences bessel.t0: a TypeError when bessel is null
getElementsThrows(bessel) == bessel = NoBessel

\* ---- decimals: <<units, e7>> stands for units + e7 / 10^7, both of one sign ----
E7 == 10000000
DNorm(u, f) ==
  LET u1 == u + (f \div E7)
      f1 == f % E7
  IN IF u1 < 0 /\ f1 > 0 THEN <<u1 + 1, f1 - E7>> ELSE <<u1, f1>>
DAdd(a, b) == DNorm(a[1] + b[1], a[2] + b[2])
\* k * a for an integer k
DTimes(k, a) == DNorm(k * a[1], k * a[2])

\* the other fields of all_bessel, entry by entry: tanf1, tanf2 and the
\* coefficient arrays x, y, d, l1, l2, mu
all_bessel_geometry ==
  <<
     [tanf1 |-> <<0, 47219>>,
      tanf2 |-> <<0, 46984>>,
      x |-> <<<<0, 1759410>>, <<0, 5253564>>, <<0, -62>>, <<0, -74>>>>,
      y |-> <<<<0, -4255600>>, <<0, 1532541>>, <<0, 792>>, <<0, -21>>>>,
      d |-> <<<<-8, -4916401>>, <<0, 152610>>, <<0, 20>>, <<0, 0>>>>,
      l1 |-> <<<<0, 5524700>>, <<0, -1257>>, <<0, -115>>, <<0, 0>>>>,
      l2 |-> <<<<0, 63010>>, <<0, -1251>>, <<0, -115>>, <<0, 0>>>>,
      mu |-> <<<<41, 7989387>>, <<15, 30899>>, <<0, 0>>, <<0, 0>>>>],
     [tanf1 |-> <<0, 46222>>,
      tanf2 |-> <<0, 45992>>,
      x |-> <<<<0, -1295710>>, <<0, 5406426>>, <<0, -294>>, <<0, -81>>>>,
      y |-> <<<<0, 4854160>>, <<0, -1416400>>, <<0, -905>>, <<0, 20>>>>,
      d |-> <<<<11, 8669596>>, <<0, -136220>>, <<0, -20>>, <<0, 0>>>>,
      l1 |-> <<<<0, 5420930>>, <<0, 1241>>, <<0, -118>>, <<0, 0>>>>,
      l2 |-> <<<<0, -40250>>, <<0, 1234>>, <<0, -117>>, <<0, 0>>>>,
      mu |-> <<<<89, 2454300>>, <<15, 39396>>, <<0, 0>>, <<0, 0>>>>],
     [tanf1 |-> <<0, 47340>>,
      tanf2 |-> <<0, 47104>>,
      x |-> <<<<0, 3636200>>, <<0, 4990523>>, <<0, -212>>, <<0, -59>>>>,
      y |-> <<<<-1, -1575490>>, <<0, 1283336>>, <<0, 1268>>, <<0, -14>>>>,
      d |-> <<<<-12, -4640398>>, <<0, 140800>>, <<0, 30>>, <<0, 0>>>>,
      l1 |-> <<<<0, 5682570>>, <<0, -923>>, <<0, -103>>, <<0, 0>>>>,
      l2 |-> <<<<0, 220090>>, <<0, -918>>, <<0, -102>>, <<0, 0>>>>,
      mu |-> <<<<131, 4807434>>, <<15, 18196>>, <<0, 0>>, <<0, 0>>>>],
     [tanf1 |-> <<0, 45988>>,
      tanf2 |-> <<0, 45759>>,
      x |-> <<<<0, -992860>>, <<0, 5828147>>, <<0, -13>>, <<0, -99>>>>,
      y |-> <<<<-1, -3507690>>, <<0, -332933>>, <<0, -770>>, <<0, 5>>>>,
      d |-> <<<<21, 8453102>>, <<0, -59370>>, <<0, -50>>, <<0, 0>>>>,
      l1 |-> <<<<0, 5301680>>, <<0, -118>>, <<0, -128>>, <<0, 0>>>>,
      l2 |-> <<<<0, -158900>>, <<0, -118>>, <<0, -127>>, <<0, 0>>>>,
      mu |-> <<<<223, 5707855>>, <<15, 2403>>, <<0, 0>>, <<0, 0>>>>],
     [tanf1 |-> <<0, 46127>>,
      tanf2 |-> <<0, 45897>>,
      x |-> <<<<0, 3675080>>, <<0, 5684958>>, <<0, -477>>, <<0, -96>>>>,
      y |-> <<<<1, 939190>>, <<0, -1262935>>, <<0, -1598>>, <<0, 21>>>>,
      d |-> <<<<15, 2167301>>, <<0, -120760>>, <<0, -30>>, <<0, 0>>>>,
      l1 |-> <<<<0, 5316980>>, <<0, 338>>, <<0, -128>>, <<0, 0>>>>,
      l2 |-> <<<<0, -143680>>, <<0, 336>>, <<0, -127>>, <<0, 0>>>>,
      mu |-> <<<<328, 6961060>>, <<15, 30804>>, <<0, 0>>, <<0, 0>>>>],
     [tanf1 |-> <<0, 47562>>,
      tanf2 |-> <<0, 47325>>,
      x |-> <<<<0, 1283730>>, <<0, 5082384>>, <<0, -162>>, <<0, -58>>>>,
      y |-> <<<<1, 1440220>>, <<0, 84236>>, <<0, 1036>>, <<0, 0>>>>,
      d |-> <<<<-22, -5449200>>, <<0, 48480>>, <<0, 60>>, <<0, 0>>>>,
      l1 |-> <<<<0, 5727020>>, <<0, 575>>, <<0, -101>>, <<0, 0>>>>,
      l2 |-> <<<<0, 264320>>, <<0, 572>>, <<0, -100>>, <<0, 0>>>>,
      mu |-> <<<<208, 6152954>>, <<14, 9967403>>, <<0, 0>>, <<0, 0>>>>],
     [tanf1 |-> <<0, 45984>>,
      tanf2 |-> <<0, 45755>>,
      x |-> <<<<0, -2156340>>, <<0, 5662087>>, <<0, 274>>, <<0, -88>>>>,
      y |-> <<<<0, -6507080>>, <<0, 106399>>, <<0, -1272>>, <<0, -3>>>>,
      d |-> <<<<23, 129509>>, <<0, -31870>>, <<0, -50>>, <<0, 0>>>>,
      l1 |-> <<<<0, 5376310>>, <<0, -898>>, <<0, -120>>, <<0, 0>>>>,
      l2 |-> <<<<0, -84640>>, <<0, -894>>, <<0, -120>>, <<0, 0>>>>,
      mu |-> <<<<103, 9797287>>, <<14, 9995098>>, <<0, 0>>, <<0, 0>>>>],
     [tanf1 |-> <<0, 47548>>,
      tanf2 |-> <<0, 47311>>,
      x |-> <<<<0, -1404130>>, <<0, 5356103>>, <<0, -15>>, <<0, -72>>>>,
      y |-> <<<<0, 4240750>>, <<0, -366551>>, <<0, 1458>>, <<0, 6>>>>,
      d |-> <<<<-23, -3734703>>, <<0, 14070>>, <<0, 60>>, <<0, 0>>>>,
      l1 |-> <<<<0, 5588870>>, <<0, 1284>>, <<0, -112>>, <<0, 0>>>>,
      l2 |-> <<<<0, 126860>>, <<0, 1277>>, <<0, -111>>, <<0, 0>>>>,
      mu |-> <<<<254, 9367676>>, <<14, 9962702>>, <<0, 0>>, <<0, 0>>>>],
     [tanf1 |-> <<0, 46009>>,
      tanf2 |-> <<0, 45780>>,
      x |-> <<<<0, 1542590>>, <<0, 5311546>>, <<0, 259>>, <<0, -69>>>>,
      y |-> <<<<0, 1364090>>, <<0, 513871>>, <<0, -1610>>, <<0, -8>>>>,
      d |-> <<<<23, 4356709>>, <<0, -2330>>, <<0, -60>>, <<0, 0>>>>,
      l1 |-> <<<<0, 5523180>>, <<0, -1223>>, <<0, -107>>, <<0, 0>>>>,
      l2 |-> <<<<0, 61500>>, <<0, -1217>>, <<0, -107>>, <<0, 0>>>>,
      mu |-> <<<<284, 5355225>>, <<14, 9991102>>, <<0, 0>>, <<0, 0>>>>],
     [tanf1 |-> <<0, 47502>>,
      tanf2 |-> <<0, 47266>>,
      x |-> <<<<0, -1818240>>, <<0, 5633567>>, <<0, 216>>, <<0, -90>>>>,
      y |-> <<<<0, -2696450>>, <<0, -858122>>, <<0, 1884>>, <<0, 15>>>>,
      d |-> <<<<-23, -2577591>>, <<0, -19860>>, <<0, 60>>, <<0, 0>>>>,
      l1 |-> <<<<0, 5438620>>, <<0, 970>>, <<0, -126>>, <<0, 0>>>>,
      l2 |-> <<<<0, -22650>>, <<0, 965>>, <<0, -125>>, <<0, 0>>>>,
      mu |-> <<<<61, 2659111>>, <<14, 9965000>>, <<0, 0>>, <<0, 0>>>>],
     [tanf1 |-> <<0, 46060>>,
      tanf2 |-> <<0, 45830>>,
      x |-> <<<<0, -187040>>, <<0, 5012289>>, <<0, 342>>, <<0, -57>>>>,
      y |-> <<<<0, 9261060>>, <<0, 887765>>, <<0, -1797>>, <<0, -11>>>>,
      d |-> <<<<23, 422802>>, <<0, 28410>>, <<0, -50>>, <<0, 0>>>>,
      l1 |-> <<<<0, 5643800>>, <<0, -551>>, <<0, -98>>, <<0, 0>>>>,
      l2 |-> <<<<0, 181510>>, <<0, -548>>, <<0, -97>>, <<0, 0>>>>,
      mu |-> <<<<345, 1269226>>, <<14, 9991999>>, <<0, 0>>, <<0, 0>>>>],
     [tanf1 |-> <<0, 47434>>,
      tanf2 |-> <<0, 47198>>,
      x |-> <<<<0, 252090>>, <<0, 5683028>>, <<0, 391>>, <<0, -97>>>>,
      y |-> <<<<0, -9836530>>, <<0, -1315142>>, <<0, 2213>>, <<0, 24>>>>,
      d |-> <<<<-22, -2747192>>, <<0, -51780>>, <<0, 60>>, <<0, 0>>>>,
      l1 |-> <<<<0, 5378050>>, <<0, -160>>, <<0, -131>>, <<0, 0>>>>,
      l2 |-> <<<<0, -82920>>, <<0, -160>>, <<0, -131>>, <<0, 0>>>>,
      mu |-> <<<<302, 4521790>>, <<14, 9972801>>, <<0, 0>>, <<0, 0>>>>],
     [tanf1 |-> <<0, 46420>>,
      tanf2 |-> <<0, 46189>>,
      x |-> <<<<0, 6180800>>, <<0, 4753147>>, <<0, -15>>, <<0, -57>>>>,
      y |-> <<<<-1, -280890>>, <<0, 2096405>>, <<0, -432>>, <<0, -27>>>>,
      d |-> <<<<14, 9710398>>, <<0, 121670>>, <<0, -30>>, <<0, 0>>>>,
      l1 |-> <<<<0, 5610730>>, <<0, 847>>, <<0, -103>>, <<0, 0>>>>,
      l2 |-> <<<<0, 148610>>, <<0, 843>>, <<0, -102>>, <<0, 0>>>>,
      mu |-> <<<<135, 7055969>>, <<15, 24700>>, <<0, 0>>, <<0, 0>>>>],
     [tanf1 |-> <<0, 47019>>,
      tanf2 |-> <<0, 46785>>,
      x |-> <<<<0, 4547920>>, <<0, 4955495>>, <<0, 277>>, <<0, -70>>>>,
      y |-> <<<<0, 9687710>>, <<0, -2395876>>, <<0, 167>>, <<0, 36>>>>,
      d |-> <<<<-12, -1734800>>, <<0, -137460>>, <<0, 30>>, <<0, 0>>>>,
      l1 |-> <<<<0, 5498790>>, <<0, -1152>>, <<0, -116>>, <<0, 0>>>>,
      l2 |-> <<<<0, 37230>>, <<0, -1146>>, <<0, -116>>, <<0, 0>>>>,
      mu |-> <<<<348, 9822693>>, <<15, 24300>>, <<0, 0>>, <<0, 0>>>>],
     [tanf1 |-> <<0, 46550>>,
      tanf2 |-> <<0, 46318>>,
      x |-> <<<<0, 268500>>, <<0, 4950182>>, <<0, 135>>, <<0, -71>>>>,
      y |-> <<<<0, -4273660>>, <<0, 2441992>>, <<0, -494>>, <<0, -37>>>>,
      d |-> <<<<11, 4117899>>, <<0, 137410>>, <<0, -30>>, <<0, 0>>>>,
      l1 |-> <<<<0, 5468040>>, <<0, 1216>>, <<0, -116>>, <<0, 0>>>>,
      l2 |-> <<<<0, 6630>>, <<0, 1210>>, <<0, -115>>, <<0, 0>>>>,
      mu |-> <<<<240, 2429352>>, <<15, 34199>>, <<0, 0>>, <<0, 0>>>>],
     [tanf1 |-> <<0, 46882>>,
      tanf2 |-> <<0, 46648>>,
      x |-> <<<<0, 1696580>>, <<0, 4585533>>, <<0, 278>>, <<0, -54>>>>,
      y |-> <<<<0, 3348590>>, <<0, -2413671>>, <<0, 240>>, <<0, 30>>>>,
      d |-> <<<<-8, -2441902>>, <<0, -148880>>, <<0, 20>>, <<0, 0>>>>,
      l1 |-> <<<<0, 5643110>>, <<0, -891>>, <<0, -103>>, <<0, 0>>>>,
      l2 |-> <<<<0, 180830>>, <<0, -886>>, <<0, -103>>, <<0, 0>>>>,
      mu |-> <<<<93, 5017319>>, <<15, 35295>>, <<0, 0>>, <<0, 0>>>>],
     [tanf1 |-> <<0, 46683>>,
      tanf2 |-> <<0, 46450>>,
      x |-> <<<<0, -3182440>>, <<0, 5117116>>, <<0, 326>>, <<0, -84>>>>,
      y |-> <<<<0, 2197640>>, <<0, 2709589>>, <<0, -595>>, <<0, -47>>>>,
      d |-> <<<<7, 5862002>>, <<0, 148440>>, <<0, -20>>, <<0, 0>>>>,
      l1 |-> <<<<0, 5358140>>, <<0, 618>>, <<0, -128>>, <<0, 0>>>>,
      l2 |-> <<<<0, -102720>>, <<0, 615>>, <<0, -127>>, <<0, 0>>>>,
      mu |-> <<<<89, 5912170>>, <<15, 40798>>, <<0, 0>>, <<0, 0>>>>],
     [tanf1 |-> <<0, 46734>>,
      tanf2 |-> <<0, 46501>>,
      x |-> <<<<0, -680480>>, <<0, 4416170>>, <<0, 136>>, <<0, -48>>>>,
      y |-> <<<<0, -3631700>>, <<0, -2435630>>, <<0, 339>>, <<0, 28>>>>,
      d |-> <<<<-3, -9872501>>, <<0, -155110>>, <<0, 10>>, <<0, 0>>>>,
      l1 |-> <<<<0, 5703490>>, <<0, -2>>, <<0, -98>>, <<0, 0>>>>,
      l2 |-> <<<<0, 240910>>, <<0, -2>>, <<0, -97>>, <<0, 0>>>>,
      mu |-> <<<<107, 7310867>>, <<15, 43297>>, <<0, 0>>, <<0, 0>>>>],
     [tanf1 |-> <<0, 46823>>,
      tanf2 |-> <<0, 46590>>,
      x |-> <<<<0, -4028700>>, <<0, 5094122>>, <<0, 415>>, <<0, -85>>>>,
      y |-> <<<<0, 9656950>>, <<0, 2788348>>, <<0, -723>>, <<0, -48>>>>,
      d |-> <<<<3, 5660200>>, <<0, 155390>>, <<0, -10>>, <<0, 0>>>>,
      l1 |-> <<<<0, 5357660>>, <<0, -533>>, <<0, -129>>, <<0, 0>>>>,
      l2 |-> <<<<0, -103200>>, <<0, -530>>, <<0, -128>>, <<0, 0>>>>,
      mu |-> <<<<343, 8316650>>, <<15, 43602>>, <<0, 0>>, <<0, 0>>>>],
     [tanf1 |-> <<0, 46583>>,
      tanf2 |-> <<0, 46351>>,
      x |-> <<<<0, -3900720>>, <<0, 4531592>>, <<0, 32>>, <<0, -54>>>>,
      y |-> <<<<-1, -18340>>, <<0, -2521633>>, <<0, 456>>, <<0, 31>>>>,
      d |-> <<<<0, 3647200>>, <<0, -156000>>, <<0, 0>>, <<0, 0>>>>,
      l1 |-> <<<<0, 5624920>>, <<0, 909>>, <<0, -103>>, <<0, 0>>>>,
      l2 |-> <<<<0, 162730>>, <<0, 905>>, <<0, -102>>, <<0, 0>>>>,
      mu |-> <<<<121, 7819214>>, <<15, 47703>>, <<0, 0>>, <<0, 0>>>>],
     [tanf1 |-> <<0, 47321>>,
      tanf2 |-> <<0, 47085>>,
      x |-> <<<<0, 3219540>>, <<0, 4827224>>, <<0, -314>>, <<0, -64>>>>,
      y |-> <<<<0, -9269710>>, <<0, 2355394>>, <<0, 1169>>, <<0, -33>>>>,
      d |-> <<<<-11, -8793001>>, <<0, 140490>>, <<0, 20>>, <<0, 0>>>>,
      l1 |-> <<<<0, 5577200>>, <<0, -1181>>, <<0, -111>>, <<0, 0>>>>,
      l2 |-> <<<<0, 115240>>, <<0, -1175>>, <<0, -111>>, <<0, 0>>>>,
      mu |-> <<<<356, 5144043>>, <<15, 19798>>, <<0, 0>>, <<0, 0>>>>],
     [tanf1 |-> <<0, 46141>>,
      tanf2 |-> <<0, 45911>>,
      x |-> <<<<0, 4755140>>, <<0, 5189249>>, <<0, -773>>, <<0, -80>>>>,
      y |-> <<<<0, 7711830>>, <<0, -2301680>>, <<0, -1246>>, <<0, 38>>>>,
      d |-> <<<<14, 7966700>>, <<0, -120650>>, <<0, -30>>, <<0, 0>>>>,
      l1 |-> <<<<0, 5379550>>, <<0, 939>>, <<0, -121>>, <<0, 0>>>>,
      l2 |-> <<<<0, -81420>>, <<0, 935>>, <<0, -121>>, <<0, 0>>>>,
      mu |-> <<<<88, 7477875>>, <<15, 30899>>, <<0, 0>>, <<0, 0>>>>],
     [tanf1 |-> <<0, 47426>>,
      tanf2 |-> <<0, 47190>>,
      x |-> <<<<0, 1116760>>, <<0, 4664952>>, <<0, -337>>, <<0, -53>>>>,
      y |-> <<<<0, -2732930>>, <<0, 2031856>>, <<0, 1025>>, <<0, -25>>>>,
      d |-> <<<<-15, -5479402>>, <<0, 123830>>, <<0, 40>>, <<0, 0>>>>,
      l1 |-> <<<<0, 5719280>>, <<0, -653>>, <<0, -101>>, <<0, 0>>>>,
      l2 |-> <<<<0, 256620>>, <<0, -650>>, <<0, -100>>, <<0, 0>>>>,
      mu |-> <<<<56, 4930687>>, <<15, 5102>>, <<0, 0>>, <<0, 0>>>>],
     [tanf1 |-> <<0, 46064>>,
      tanf2 |-> <<0, 45834>>,
      x |-> <<<<0, -197720>>, <<0, 5447123>>, <<0, -446>>, <<0, -92>>>>,
      y |-> <<<<0, 1600610>>, <<0, -2111582>>, <<0, -1217>>, <<0, 38>>>>,
      d |-> <<<<17, 7624702>>, <<0, -101810>>, <<0, -40>>, <<0, 0>>>>,
      l1 |-> <<<<0, 5305960>>, <<0, 138>>, <<0, -128>>, <<0, 0>>>>,
      l2 |-> <<<<0, -154640>>, <<0, 137>>, <<0, -128>>, <<0, 0>>>>,
      mu |-> <<<<328, 4225464>>, <<15, 21000>>, <<0, 0>>, <<0, 0>>>>],
     [tanf1 |-> <<0, 47501>>,
      tanf2 |-> <<0, 47264>>,
      x |-> <<<<0, -2052830>>, <<0, 4742570>>, <<0, -390>>, <<0, -53>>>>,
      y |-> <<<<0, 3402800>>, <<0, 1738587>>, <<0, 968>>, <<0, -21>>>>,
      d |-> <<<<-18, -7282505>>, <<0, 100740>>, <<0, 50>>, <<0, 0>>>>,
      l1 |-> <<<<0, 5741170>>, <<0, 420>>, <<0, -99>>, <<0, 0>>>>,
      l2 |-> <<<<0, 278400>>, <<0, 418>>, <<0, -99>>, <<0, 0>>>>,
      mu |-> <<<<41, 8912811>>, <<14, 9989595>>, <<0, 0>>, <<0, 0>>>>],
     [tanf1 |-> <<0, 46016>>,
      tanf2 |-> <<0, 45786>>,
      x |-> <<<<0, -1544090>>, <<0, 5449892>>, <<0, -214>>, <<0, -87>>>>,
      y |-> <<<<0, -5864240>>, <<0, -1746085>>, <<0, -1021>>, <<0, 30>>>>,
      d |-> <<<<20, 1823101>>, <<0, -79740>>, <<0, -50>>, <<0, 0>>>>,
      l1 |-> <<<<0, 5352370>>, <<0, -859>>, <<0, -123>>, <<0, 0>>>>,
      l2 |-> <<<<0, -108460>>, <<0, -854>>, <<0, -122>>, <<0, 0>>>>,
      mu |-> <<<<223, 3786774>>, <<15, 10204>>, <<0, 0>>, <<0, 0>>>>],
     [tanf1 |-> <<0, 47541>>,
      tanf2 |-> <<0, 47304>>,
      x |-> <<<<0, -4074440>>, <<0, 5081525>>, <<0, -393>>, <<0, -65>>>>,
      y |-> <<<<0, 9810550>>, <<0, 1455283>>, <<0, 921>>, <<0, -20>>>>,
      d |-> <<<<-21, -1630096>>, <<0, 72410>>, <<0, 60>>, <<0, 0>>>>,
      l1 |-> <<<<0, 5626660>>, <<0, 1189>>, <<0, -109>>, <<0, 0>>>>,
      l2 |-> <<<<0, 164460>>, <<0, 1183>>, <<0, -108>>, <<0, 0>>>>,
      mu |-> <<<<72, 6928863>>, <<14, 9976301>>, <<0, 0>>, <<0, 0>>>>],
     [tanf1 |-> <<0, 46048>>,
      tanf2 |-> <<0, 45819>>,
      x |-> <<<<0, -107990>>, <<0, 5247606>>, <<0, 104>>, <<0, -65>>>>,
      y |-> <<<<1, 2954130>>, <<0, -176365>>, <<0, -2057>>, <<0, 3>>>>,
      d |-> <<<<23, 1593208>>, <<0, 25910>>, <<0, -50>>, <<0, 0>>>>,
      l1 |-> <<<<0, 5566620>>, <<0, -1027>>, <<0, -104>>, <<0, 0>>>>,
      l2 |-> <<<<0, 104720>>, <<0, -1022>>, <<0, -103>>, <<0, 0>>>>,
      mu |-> <<<<240, 355835>>, <<14, 9991999>>, <<0, 0>>, <<0, 0>>>>],
     [tanf1 |-> <<0, 45994>>,
      tanf2 |-> <<0, 45765>>,
      x |-> <<<<0, -1373470>>, <<0, 5252634>>, <<0, -96>>, <<0, -71>>>>,
      y |-> <<<<-1, -4271491>>, <<0, -1280417>>, <<0, -769>>, <<0, 19>>>>,
      d |-> <<<<22, 24509>>, <<0, -54230>>, <<0, -50>>, <<0, 0>>>>,
      l1 |-> <<<<0, 5487560>>, <<0, -1269>>, <<0, -110>>, <<0, 0>>>>,
      l2 |-> <<<<0, 26050>>, <<0, -1263>>, <<0, -109>>, <<0, 0>>>>,
      mu |-> <<<<58, 6025696>>, <<15, 95>>, <<0, 0>>, <<0, 0>>>>],
     [tanf1 |-> <<0, 47446>>,
      tanf2 |-> <<0, 47209>>,
      x |-> <<<<0, -638330>>, <<0, 5766353>>, <<0, -27>>, <<0, -95>>>>,
      y |-> <<<<-1, -596660>>, <<0, -140165>>, <<0, 2295>>, <<0, 1>>>>,
      d |-> <<<<-22, -4454498>>, <<0, -50540>>, <<0, 60>>, <<0, 0>>>>,
      l1 |-> <<<<0, 5406420>>, <<0, 699>>, <<0, -128>>, <<0, 0>>>>,
      l2 |-> <<<<0, -54690>>, <<0, 695>>, <<0, -128>>, <<0, 0>>>>,
      mu |-> <<<<47, 3098488>>, <<14, 9971705>>, <<0, 0>>, <<0, 0>>>>],
     [tanf1 |-> <<0, 46120>>,
      tanf2 |-> <<0, 45890>>,
      x |-> <<<<0, -2693910>>, <<0, 5056371>>, <<0, 182>>, <<0, -57>>>>,
      y |-> <<<<0, 5519770>>, <<0, 210150>>, <<0, -1586>>, <<0, -2>>>>,
      d |-> <<<<22, 613003>>, <<0, 55810>>, <<0, -50>>, <<0, 0>>>>,
      l1 |-> <<<<0, 5661500>>, <<0, -130>>, <<0, -97>>, <<0, 0>>>>,
      l2 |-> <<<<0, 199120>>, <<0, -129>>, <<0, -97>>, <<0, 0>>>>,
      mu |-> <<<<270, 5398254>>, <<14, 9996996>>, <<0, 0>>, <<0, 0>>>>],
     [tanf1 |-> <<0, 47361>>,
      tanf2 |-> <<0, 47125>>,
      x |-> <<<<0, 441500>>, <<0, 5787798>>, <<0, 177>>, <<0, -98>>>>,
      y |-> <<<<0, -3926600>>, <<0, -551891>>, <<0, 1744>>, <<0, 8>>>>,
      d |-> <<<<-20, -7609997>>, <<0, -79890>>, <<0, 50>>, <<0, 0>>>>,
      l1 |-> <<<<0, 5382130>>, <<0, -379>>, <<0, -130>>, <<0, 0>>>>,
      l2 |-> <<<<0, -78850>>, <<0, -377>>, <<0, -130>>, <<0, 0>>>>,
      mu |-> <<<<288, 2745972>>, <<14, 9983597>>, <<0, 0>>, <<0, 0>>>>],
     [tanf1 |-> <<0, 46208>>,
      tanf2 |-> <<0, 45978>>,
      x |-> <<<<0, -1147810>>, <<0, 5112392>>, <<0, 72>>, <<0, -60>>>>,
      y |-> <<<<0, -2112480>>, <<0, 579330>>, <<0, -1182>>, <<0, -6>>>>,
      d |-> <<<<20, 1591492>>, <<0, 83390>>, <<0, -50>>, <<0, 0>>>>,
      l1 |-> <<<<0, 5624050>>, <<0, 806>>, <<0, -100>>, <<0, 0>>>>,
      l2 |-> <<<<0, 161860>>, <<0, 802>>, <<0, -100>>, <<0, 0>>>>,
      mu |-> <<<<285, 8511353>>, <<15, 6199>>, <<0, 0>>, <<0, 0>>>>],
     [tanf1 |-> <<0, 47260>>,
      tanf2 |-> <<0, 47025>>,
      x |-> <<<<0, -198690>>, <<0, 5509440>>, <<0, 366>>, <<0, -82>>>>,
      y |-> <<<<0, 3149710>>, <<0, -890652>>, <<0, 1046>>, <<0, 12>>>>,
      d |-> <<<<-18, -3368092>>, <<0, -105340>>, <<0, 40>>, <<0, 0>>>>,
      l1 |-> <<<<0, 5477740>>, <<0, -1068>>, <<0, -120>>, <<0, 0>>>>,
      l2 |-> <<<<0, 16280>>, <<0, -1063>>, <<0, -119>>, <<0, 0>>>>,
      mu |-> <<<<138, 8939819>>, <<14, 9997597>>, <<0, 0>>, <<0, 0>>>>],
     [tanf1 |-> <<0, 46310>>,
      tanf2 |-> <<0, 46079>>,
      x |-> <<<<0, -743600>>, <<0, 5359546>>, <<0, 52>>, <<0, -74>>>>,
      y |-> <<<<0, -9654510>>, <<0, 954058>>, <<0, -702>>, <<0, -13>>>>,
      d |-> <<<<17, 5929108>>, <<0, 106940>>, <<0, -40>>, <<0, 0>>>>,
      l1 |-> <<<<0, 5488530>>, <<0, 1272>>, <<0, -112>>, <<0, 0>>>>,
      l2 |-> <<<<0, 27020>>, <<0, 1266>>, <<0, -112>>, <<0, 0>>>>,
      mu |-> <<<<15, 8891001>>, <<15, 17405>>, <<0, 0>>, <<0, 0>>>>],
     [tanf1 |-> <<0, 47141>>,
      tanf2 |-> <<0, 46906>>,
      x |-> <<<<0, 4492390>>, <<0, 5120192>>, <<0, 170>>, <<0, -64>>>>,
      y |-> <<<<0, 9908360>>, <<0, -1128683>>, <<0, 452>>, <<0, 13>>>>,
      d |-> <<<<-15, -2399197>>, <<0, -126330>>, <<0, 30>>, <<0, 0>>>>,
      l1 |-> <<<<0, 5626050>>, <<0, -1127>>, <<0, -106>>, <<0, 0>>>>,
      l2 |-> <<<<0, 163850>>, <<0, -1121>>, <<0, -106>>, <<0, 0>>>>,
      mu |-> <<<<274, 1191101>>, <<15, 12302>>, <<0, 0>>, <<0, 0>>>>],
     [tanf1 |-> <<0, 46807>>,
      tanf2 |-> <<0, 46574>>,
      x |-> <<<<0, -3188510>>, <<0, 5554244>>, <<0, 227>>, <<0, -94>>>>,
      y |-> <<<<0, 9246670>>, <<0, 1756610>>, <<0, -801>>, <<0, -29>>>>,
      d |-> <<<<4, 936799>>, <<0, 157190>>, <<0, -10>>, <<0, 0>>>>,
      l1 |-> <<<<0, 5349430>>, <<0, 276>>, <<0, -129>>, <<0, 0>>>>,
      l2 |-> <<<<0, -111390>>, <<0, 275>>, <<0, -129>>, <<0, 0>>>>,
      mu |-> <<<<88, 9280777>>, <<15, 44498>>, <<0, 0>>, <<0, 0>>>>],
     [tanf1 |-> <<0, 46607>>,
      tanf2 |-> <<0, 46375>>,
      x |-> <<<<0, -3099960>>, <<0, 4815448>>, <<0, 87>>, <<0, -54>>>>,
      y |-> <<<<-1, -1170050>>, <<0, -1545441>>, <<0, 478>>, <<0, 17>>>>,
      d |-> <<<<0, -3398200>>, <<0, -158450>>, <<0, 0>>, <<0, 0>>>>,
      l1 |-> <<<<0, 5688970>>, <<0, 318>>, <<0, -98>>, <<0, 0>>>>,
      l2 |-> <<<<0, 226460>>, <<0, 316>>, <<0, -97>>, <<0, 0>>>>,
      mu |-> <<<<31, 9424591>>, <<15, 47998>>, <<0, 0>>, <<0, 0>>>>],
     [tanf1 |-> <<0, 46952>>,
      tanf2 |-> <<0, 46718>>,
      x |-> <<<<0, -2596090>>, <<0, 5481629>>, <<0, 234>>, <<0, -90>>>>,
      y |-> <<<<0, 2207520>>, <<0, 1755790>>, <<0, -80>>, <<0, -28>>>>,
      d |-> <<<<0, -551300>>, <<0, 160420>>, <<0, 0>>, <<0, 0>>>>,
      l1 |-> <<<<0, 5386310>>, <<0, -665>>, <<0, -127>>, <<0, 0>>>>,
      l2 |-> <<<<0, -74690>>, <<0, -662>>, <<0, -126>>, <<0, 0>>>>,
      mu |-> <<<<328, 1391296>>, <<15, 44002>>, <<0, 0>>, <<0, 0>>>>],
     [tanf1 |-> <<0, 46461>>,
      tanf2 |-> <<0, 46230>>,
      x |-> <<<<0, -2809060>>, <<0, 5028342>>, <<0, -107>>, <<0, -63>>>>,
      y |-> <<<<0, -3243390>>, <<0, -1577845>>, <<0, -8>>, <<0, 19>>>>,
      d |-> <<<<3, 9719100>>, <<0, -155340>>, <<0, -10>>, <<0, 0>>>>,
      l1 |-> <<<<0, 5578010>>, <<0, 1188>>, <<0, -106>>, <<0, 0>>>>,
      l2 |-> <<<<0, 116050>>, <<0, 1182>>, <<0, -105>>, <<0, 0>>>>,
      mu |-> <<<<60, 9496994>>, <<15, 49000>>, <<0, 0>>, <<0, 0>>>>],
     [tanf1 |-> <<0, 47095>>,
      tanf2 |-> <<0, 46861>>,
      x |-> <<<<0, 794690>>, <<0, 5205739>>, <<0, 50>>, <<0, -73>>>>,
      y |-> <<<<0, -4328320>>, <<0, 1630945>>, <<0, 532>>, <<0, -22>>>>,
      d |-> <<<<-4, -2733402>>, <<0, 159200>>, <<0, 10>>, <<0, 0>>>>,
      l1 |-> <<<<0, 5526230>>, <<0, -1219>>, <<0, -114>>, <<0, 0>>>>,
      l2 |-> <<<<0, 64530>>, <<0, -1213>>, <<0, -114>>, <<0, 0>>>>,
      mu |-> <<<<162, 3961334>>, <<15, 38996>>, <<0, 0>>, <<0, 0>>>>],
     [tanf1 |-> <<0, 46328>>,
      tanf2 |-> <<0, 46097>>,
      x |-> <<<<0, 1342820>>, <<0, 5377735>>, <<0, -360>>, <<0, -81>>>>,
      y |-> <<<<0, 3490090>>, <<0, -1584651>>, <<0, -595>>, <<0, 23>>>>,
      d |-> <<<<8, 177097>>, <<0, -147830>>, <<0, -20>>, <<0, 0>>>>,
      l1 |-> <<<<0, 5419200>>, <<0, 1103>>, <<0, -119>>, <<0, 0>>>>,
      l2 |-> <<<<0, -41970>>, <<0, 1098>>, <<0, -118>>, <<0, 0>>>>,
      mu |-> <<<<210, 299835>>, <<15, 46396>>, <<0, 0>>, <<0, 0>>>>],
     [tanf1 |-> <<0, 47231>>,
      tanf2 |-> <<0, 46995>>,
      x |-> <<<<0, 4440430>>, <<0, 4934011>>, <<0, -201>>, <<0, -58>>>>,
      y |-> <<<<-1, -1143190>>, <<0, 1445403>>, <<0, 997>>, <<0, -16>>>>,
      d |-> <<<<-8, -4996901>>, <<0, 152810>>, <<0, 20>>, <<0, 0>>>>,
      l1 |-> <<<<0, 5681920>>, <<0, -906>>, <<0, -102>>, <<0, 0>>>>,
      l2 |-> <<<<0, 219450>>, <<0, -901>>, <<0, -102>>, <<0, 0>>>>,
      mu |-> <<<<251, 8083954>>, <<15, 30003>>, <<0, 0>>, <<0, 0>>>>],
     [tanf1 |-> <<0, 46019>>,
      tanf2 |-> <<0, 45789>>,
      x |-> <<<<0, 900160>>, <<0, 5788221>>, <<0, -180>>, <<0, -99>>>>,
      y |-> <<<<-1, -4478140>>, <<0, -733682>>, <<0, -547>>, <<0, 12>>>>,
      d |-> <<<<19, 8942108>>, <<0, -85370>>, <<0, -50>>, <<0, 0>>>>,
      l1 |-> <<<<0, 5304360>>, <<0, -306>>, <<0, -128>>, <<0, 0>>>>,
      l2 |-> <<<<0, -156240>>, <<0, -304>>, <<0, -127>>, <<0, 0>>>>,
      mu |-> <<<<343, 3619080>>, <<15, 12398>>, <<0, 0>>, <<0, 0>>>>],
     [tanf1 |-> <<0, 46217>>,
      tanf2 |-> <<0, 45987>>,
      x |-> <<<<0, 364460>>, <<0, 5632887>>, <<0, -280>>, <<0, -96>>>>,
      y |-> <<<<1, 1103849>>, <<0, -1496972>>, <<0, -1354>>, <<0, 25>>>>,
      d |-> <<<<11, 7411900>>, <<0, -136460>>, <<0, -20>>, <<0, 0>>>>,
      l1 |-> <<<<0, 5319080>>, <<0, 445>>, <<0, -128>>, <<0, 0>>>>,
      l2 |-> <<<<0, -141580>>, <<0, 443>>, <<0, -127>>, <<0, 0>>>>,
      mu |-> <<<<74, 2591782>>, <<15, 40302>>, <<0, 0>>, <<0, 0>>>>],
     [tanf1 |-> <<0, 47540>>,
      tanf2 |-> <<0, 47303>>,
      x |-> <<<<0, -134420>>, <<0, 5071025>>, <<0, -215>>, <<0, -58>>>>,
      y |-> <<<<1, 1514910>>, <<0, 475625>>, <<0, 875>>, <<0, -5>>>>,
      d |-> <<<<-20, -8301106>>, <<0, 79690>>, <<0, 60>>, <<0, 0>>>>,
      l1 |-> <<<<0, 5720820>>, <<0, 633>>, <<0, -101>>, <<0, 0>>>>,
      l2 |-> <<<<0, 258150>>, <<0, 630>>, <<0, -101>>, <<0, 0>>>>,
      mu |-> <<<<327, 5504456>>, <<14, 9978304>>, <<0, 0>>, <<0, 0>>>>],
     [tanf1 |-> <<0, 45993>>,
      tanf2 |-> <<0, 45764>>,
      x |-> <<<<0, 1415010>>, <<0, 5635997>>, <<0, 1>>, <<0, -87>>>>,
      y |-> <<<<0, -7337070>>, <<0, -318217>>, <<0, -1131>>, <<0, 4>>>>,
      d |-> <<<<21, 7824306>>, <<0, -60460>>, <<0, -50>>, <<0, 0>>>>,
      l1 |-> <<<<0, 5383830>>, <<0, -1101>>, <<0, -120>>, <<0, 0>>>>,
      l2 |-> <<<<0, -77160>>, <<0, -1096>>, <<0, -119>>, <<0, 0>>>>,
      mu |-> <<<<223, 5501251>>, <<15, 2298>>, <<0, 0>>, <<0, 0>>>>] >>

PolyFields == {"x", "y", "d", "l1", "l2", "mu"}

\* a polynomial that drops its constant coefficient
Interpolate_noConstant(val, t) ==
  DAdd(DAdd(DTimes(t, val[2]), DTimes(t * t, val[3])), DTimes(t * t * t, val[4]))

\* getElements, array branch: val[0] + t * val[1] + t * t * val[2] + t * t * t * val[3]
\* for t a whole number of hours
Interpolate(val, t) ==
  DAdd(DAdd(DAdd(val[1], DTimes(t, val[2])), DTimes(t * t, val[3])),
       DTimes(t * t * t, val[4]))

\* the non-array fields are copied (the polynomial fields are not needed here)
getElements(bessel, t1) ==
  [t0 |-> all_bessel[bessel].t0, deltat |-> all_bessel[bessel].deltat]

\* the marker set already at a distance of exactly four hours
CheckWindow_atEdge(elements, now) ==
  IF ~(TLess(now, TAdd(elements.t0, WindowSecs)) /\ TLess(elements.t0, TAdd(now, WindowSecs)))
  THEN [elements EXCEPT !.deltat = Sentinel]
  ELSE elements

\* update: if (Math.abs(now - elements.t0) > 4 * 3600) elements.deltat = -1
CheckWindow(elements, now) ==
  IF AbsDiffGreater(now, elements.t0, WindowSecs)
  THEN [elements EXCEPT !.deltat = Sentinel]
  ELSE elements

\* the instants the injected clock returns in the model
Last == Len(all_bessel)
Instants ==
  { all_bessel[1].t0,                       \* inside the first window
    TAdd(all_bessel[Last].t0, 5 * 3600) }   \* after the last window

InSomeWindow(t) ==
  \E i \in 1..Len(all_bessel) : ~AbsDiffGreater(t, all_bessel[i].t0, WindowSecs)

\* the instants of a clock that runs from the first entries to past the last:
\* around t0 of entries 1, 2 and Last, in tenths of a second from t0
ClockEntries == {1, 2, Last}
ClockOffsets == {-5 * 36000, -4 * 36000, 0, 4 * 36000, 4 * 36000 + 1, 5 * 36000}
ClockInstants ==
  {TShift(all_bessel[i].t0, off) : i \in ClockEntries, off \in ClockOffsets}

WindowedInstants == {t \in Instants \cup ClockInstants : InSomeWindow(t)}

\* ---- viewport (canvas size, top-left world pixel at the zoom, zoom) ----
\* canvas.width/height, getTopLeft() and map.getZoom() belong to the map
\* collaborator: every handler run reads the viewport the map shows then.
Viewports ==
  { [width |-> 1, height |-> 1, px |-> 0, py |-> 0, zoom |-> 1],     \* one tile
    [width |-> 257, height |-> 1, px |-> 256, py |-> 0, zoom |-> 1], \* two tiles
    [width |-> 1, height |-> 1, px |-> 0, py |-> 0, zoom |-> 9] }    \* no tiles

\* the viewport the map shows: v; how often it has changed: moves; whether
\* it has changed since update last called getBounds(): moved
InitialView(v) == [v |-> v, moves |-> 0, moved |-> FALSE]
\* for the specifications in which a handler run reads any viewport
StillView == InitialView(CHOOSE v \in Viewports : TRUE)

RECURSIVE Pow2(_)
Pow2(n) == IF n = 0 THEN 1 ELSE 2 * Pow2(n - 1)

\* for (c = 128; c < num / den; c *= 2) {}
RECURSIVE GrowFrom(_, _, _)
GrowFrom(c, num, den) == IF c * den < num THEN GrowFrom(2 * c, num, den) ELSE c

\* Math.ceil(a / b) for a >= 0, b > 0
CeilDiv(a, b) == (a + b - 1) \div b

\* len / resolutionScale + 255 as a fraction <<numerator, denominator>>, for
\* a resolution scale rs = <<n, d>>
WithMargin(len, rs) == <<len * rs[2] + 255 * rs[1], rs[1]>>

\* a canvas side grown to the viewport alone, without the 255 of margin
canvasSide_noMargin(len, rs) == GrowFrom(128, len * rs[2], rs[1])

\* cWidth / cHeight: the loop from 128 up to len / resolutionScale + 255
canvasSide(len, rs) == GrowFrom(128, WithMargin(len, rs)[1], WithMargin(len, rs)[2])
\* xMax / yMax: Math.ceil((len / resolutionScale + 255) / 256)
tileCount(len, rs) == CeilDiv(WithMargin(len, rs)[1], 256 * WithMargin(len, rs)[2])

devicePixelRatio == <<resolutionScale, 1>>
cWidth(v) == canvasSide(v.width, devicePixelRatio)
cHeight(v) == canvasSide(v.height, devicePixelRatio)
xMax(v) == tileCount(v.width, devicePixelRatio)
yMax(v) == tileCount(v.height, devicePixelRatio)

\* the fields of newCity that canSkipCanvasLoad compares
CityKey(v) ==
  [width |-> cWidth(v) * 2, height |-> cHeight(v) * 2,
   xOff |-> v.px \div 256, yOff |-> v.py \div 256, zoom |-> v.zoom]

\* newTextureInfo; fractions are pairs <<numerator, denominator>>
TextureInfo(v) ==
  [u_tl |-> << <<256 * (v.px \div 256), Pow2(v.zoom)>>,
               <<256 * (v.py \div 256), Pow2(v.zoom)>> >>,
   u_tl_scale |-> << <<Pow2(v.zoom), cWidth(v) * 2>>,
                     <<Pow2(v.zoom), cHeight(v) * 2>> >>]

Tiles(v) == (0 .. xMax(v) - 1) \X (0 .. yMax(v) - 1)

VARIABLES
  generation,    \* this.generation
  contextLost,   \* the browser has lost the WebGL context and not restored it
  map,           \* this.map is set
  handler,       \* the closure whose update is this.updateHandler_
  closures,      \* one record per run of initialize(): its local variables
  cities,        \* every newCity object allocated so far
  raster,        \* per city: the tiles drawn into its canvas
  inflight,      \* image requests whose onload/onerror has not fired yet
  texture,       \* the city whose canvas is the bound GL texture
  last,          \* what the last handler run did (history, not program state)
  probe,         \* one evaluation of a pure function: its inputs and result
  layer,         \* the CanvasLayer fields of the layer, its frame requests
  view           \* the viewport the map shows, where a specification follows it

vars == <<generation, contextLost, map, handler, closures, cities,
          raster, inflight, texture, last, probe, layer, view>>

NoProbe == [fn |-> "none"]
\* an evaluation of a pure function writes none of the layer's state
ProgramIdle ==
  UNCHANGED <<generation, contextLost, map, handler, closures, cities,
              raster, inflight, texture, last, layer, view>>

\* ---- CanvasLayer: the fields of the layer and its prototype functions ----
MaxFrames == 2

DEFAULT_PANE_NAME_ == "overlayLayer"
\* the keys of google.maps.MapPanes that the model uses
MapPanes == {"overlayLayer", "floatPane"}
PaneNames == {"overlayLayer", "noSuchPane"}
NoPane == ""
\* offsetWidth, offsetHeight of the map's div
MapSizes == {<<300, 150>>, <<600, 150>>}
NoFrame == 0

\* What the last call did (history): the function called, isAdded_ before
\* it, the user handlers it invoked in order, whether it threw, whether it
\* changed a field of the layer or a frame request.
LayerEvent(op, added) ==
  [op |-> op, added |-> added, calls |-> <<>>, threw |-> FALSE,
   changed |-> FALSE]

\* the layer after the constructor; cancels: the browser has a
\* cancelAnimationFrame (else cancelAnimFrame_ is function(requestId) {})
NewLayer(cancels) ==
  [isAdded_ |-> FALSE, isAnimated_ |-> FALSE, paneName_ |-> DEFAULT_PANE_NAME_,
   updateHandler_ |-> FALSE, resizeHandler_ |-> FALSE, topLeft_ |-> FALSE,
   centerListener_ |-> FALSE, resizeListener_ |-> FALSE, needsResize_ |-> TRUE,
   requestAnimationFrameId_ |-> NoFrame,
   canvas |-> <<300, 150>>, canvasCss |-> <<300, 150>>, resolutionScale_ |-> 1,
   parentElement |-> NoPane,
   frames |-> {}, cancels |-> cancels, mapSize |-> <<300, 150>>,
   leaked |-> FALSE, ev |-> LayerEvent("new", FALSE)]

\* requestAnimFrame_: a new request, with an id no outstanding request has
requestAnimFrame_(L) ==
  LET id == CHOOSE i \in 1 .. MaxFrames + 2 :
                /\ i \notin L.frames
                /\ \A j \in 1 .. i - 1 : j \in L.frames
  IN [L EXCEPT !.frames = @ \cup {id}, !.requestAnimationFrameId_ = id]

\* scheduleUpdate without the test of requestAnimationFrameId_
scheduleUpdate_always(L) ==
  IF L.isAdded_ THEN requestAnimFrame_(L) ELSE L

scheduleUpdate(L) ==
  IF L.isAdded_ /\ L.requestAnimationFrameId_ = NoFrame
  THEN requestAnimFrame_(L)
  ELSE L

setAnimate(L, animate) ==
  LET L1 == [L EXCEPT !.isAnimated_ = animate]
  IN IF animate THEN scheduleUpdate(L1) ELSE L1

\* setPane_ that validates the name whether or not the layer is added
setPane__eager(L) ==
  IF L.paneName_ \notin MapPanes THEN [L EXCEPT !.ev.threw = TRUE]
  ELSE IF ~L.isAdded_ THEN L
  ELSE [L EXCEPT !.parentElement = L.paneName_]

setPane_(L) ==
  IF ~L.isAdded_ THEN L
  ELSE IF L.paneName_ \notin MapPanes THEN [L EXCEPT !.ev.threw = TRUE]
  ELSE [L EXCEPT !.parentElement = L.paneName_]

setPaneName(L, paneName) == setPane_([L EXCEPT !.paneName_ = paneName])

resize_(L) ==
  IF ~L.isAdded_ THEN L
  ELSE LET new == <<L.mapSize[1] * L.resolutionScale_,
                    L.mapSize[2] * L.resolutionScale_>>
           L1 == IF L.canvas # new
                 THEN scheduleUpdate([L EXCEPT !.canvas = new, !.needsResize_ = TRUE])
                 ELSE L
       IN [L1 EXCEPT !.canvasCss = L.mapSize]

\* repositionCanvas_: without a map, map.getBounds() throws a TypeError; with
\* one, topLeft_ is assigned before getProjection() is used, and
\* scheduleUpdate does nothing on a layer that is not added
repositionCanvas_(L) ==
  IF ~map THEN [L EXCEPT !.ev.threw = TRUE]
  ELSE scheduleUpdate([L EXCEPT !.topLeft_ = TRUE])

draw(L) == repositionCanvas_(L)

onAdd(L) ==
  IF L.isAdded_ THEN L
  ELSE LET L1 == setPane_([L EXCEPT !.isAdded_ = TRUE])
       IN IF L1.ev.threw THEN L1
          ELSE repositionCanvas_(resize_(
                 [L1 EXCEPT !.resizeListener_ = TRUE, !.centerListener_ = TRUE]))

\* cancelAnimFrame_ and the assignment of null that follows it
cancelAnimFrame_(L) ==
  [L EXCEPT !.frames = IF L.cancels THEN @ \ {L.requestAnimationFrameId_} ELSE @,
            !.leaked = @ \/ (~L.cancels /\ L.requestAnimationFrameId_ \in L.frames),
            !.requestAnimationFrameId_ = NoFrame]

\* onRemove; this.canvas.parentElement.removeChild throws a TypeError when
\* the canvas is in no pane
onRemove(L) ==
  IF ~L.isAdded_ THEN L
  ELSE LET L1 == [L EXCEPT !.isAdded_ = FALSE, !.topLeft_ = FALSE]
       IN IF L1.parentElement = NoPane THEN [L1 EXCEPT !.ev.threw = TRUE]
          ELSE LET L2 == [L1 EXCEPT !.parentElement = NoPane,
                                    !.centerListener_ = FALSE,
                                    !.resizeListener_ = FALSE]
               IN IF L2.requestAnimationFrameId_ # NoFrame
                  THEN cancelAnimFrame_(L2) ELSE L2

\* the two handler calls of update_
CallHandlers(L) ==
  LET L1 == IF L.needsResize_ /\ L.resizeHandler_
            THEN [L EXCEPT !.needsResize_ = FALSE, !.ev.calls = Append(@, "resize")]
            ELSE L
  IN IF L1.updateHandler_ THEN [L1 EXCEPT !.ev.calls = Append(@, "update")] ELSE L1

\* update_ that clears needsResize_ also when no resize handler is set
update__dropResize(L) ==
  LET L1 == [L EXCEPT !.requestAnimationFrameId_ = NoFrame]
  IN IF ~L1.isAdded_ THEN L1
     ELSE CallHandlers([(IF L1.isAnimated_ THEN scheduleUpdate(L1) ELSE L1)
                          EXCEPT !.needsResize_ = @ /\ L1.resizeHandler_])

\* update_ that never requests the next frame
update__oneShot(L) ==
  LET L1 == [L EXCEPT !.requestAnimationFrameId_ = NoFrame]
  IN IF ~L1.isAdded_ THEN L1 ELSE CallHandlers(L1)

\* update_ without the test of isAdded_
update__whenRemoved(L) ==
  LET L1 == [L EXCEPT !.requestAnimationFrameId_ = NoFrame]
  IN CallHandlers(IF L1.isAnimated_ THEN scheduleUpdate(L1) ELSE L1)

update_(L) ==
  LET L1 == [L EXCEPT !.requestAnimationFrameId_ = NoFrame]
  IN IF ~L1.isAdded_ THEN L1
     ELSE CallHandlers(IF L1.isAnimated_ THEN scheduleUpdate(L1) ELSE L1)

\* the fields of the layer object and of its canvas
LayerFields ==
  {"isAdded_", "isAnimated_", "paneName_", "updateHandler_", "resizeHandler_",
   "topLeft_", "centerListener_", "resizeListener_", "needsResize_",
   "requestAnimationFrameId_", "canvas", "canvasCss", "resolutionScale_",
   "parentElement"}
Fields(L) == [f \in LayerFields |-> L[f]]

\* a call starts / ends
Begin(op) == [layer EXCEPT !.ev = LayerEvent(op, layer.isAdded_)]
End(L) ==
  /\ Cardinality(L.frames) <= MaxFrames
  /\ layer' = [L EXCEPT !.ev.changed = (Fields(L) # Fields(layer) \/ L.frames # layer.frames)]

\* everything of the model but the CanvasLayer part and the map
LayerOnly ==
  UNCHANGED <<generation, contextLost, handler, closures, cities, raster,
              inflight, texture, last, probe, view>>

\* What one handler run did (history).  Set when the handler starts:
\*   c, e        the closure, and the city of the callback (for update: the
\*               city whose bind textureUpdate holds)
\*   current     this.generation == generation of the closure
\*   active      newCity == loadedCity
\*   had         the city had a continuation stored; epending: its pending
\*   lc          loadedCity of the closure; lcpending, lckey: its pending, <<key>>
\*   windowed    some dataset window contains the instant update reads
\*   timer       the timeout that fired to run update (NoTimer: run as the
\*               layer's update handler)
\*   armed       how many timeouts of the closure were outstanding just before
\* Filled in while it runs: load (calls of loadData), alloc, fetch, defer,
\* cont (continuations invoked), bind, threw, deltat (handed to the renderer),
\* now (<<the instant update read>>), t0 (<<elements.t0 handed on>>).
\* Set when it returns:
\*   pending     the callback's city's pending count
\*   key         <<key of the viewport>> if loadData formed a newCity
\*   ci          how `cities` changed: "same", "pending" (only e's pending,
\*               by -1), "defer" (only lc's onceLoaded, set), "other"
\*   drew        some raster changed
\*   rest        closures, rasters and texture are as they were
NoEvent(op, c) ==
  [op |-> op, c |-> c, e |-> NoCity, current |-> TRUE, active |-> TRUE,
   had |-> FALSE, epending |-> 0, lc |-> NoCity, lcpending |-> 0, lckey |-> <<>>,
   windowed |-> FALSE, timer |-> NoTimer, armed |-> 0,
   load |-> 0, alloc |-> 0, fetch |-> 0, defer |-> FALSE, cont |-> 0,
   bind |-> {}, threw |-> FALSE, deltat |-> Unset, now |-> <<>>, t0 |-> <<>>,
   pending |-> 0, key |-> <<>>, ci |-> "same", drew |-> FALSE, rest |-> TRUE]

\* the local variables of initialize()
NewClosure(t) ==
  [generation |-> generation, bessel |-> getEclipseDefinition(t),
   loadedCity |-> NoCity, textureUpdate |-> NoCity, loadedTextureInfo |-> <<>>,
   canvasId |-> 0, loaddata_bounds |-> FALSE, updateTimeout |-> NoTimer,
   timers |-> {}]

\* is_current without the generation comparison
is_current_always(cl, c) == TRUE

\* newCity.is_current(): this.generation == generation
is_current(cl, c) == generation = cl[c].generation

\* canSkipCanvasLoad left at its initial 0
canSkipCanvasLoad_never(loaded, newKey) == FALSE

canSkipCanvasLoad(loaded, newKey) ==
  /\ loaded.width = newKey.width
  /\ loaded.height = newKey.height
  /\ loaded.xOff = newKey.xOff
  /\ loaded.yOff = newKey.yOff
  /\ loaded.zoom = newKey.zoom

\* dobindTexture that binds but does not publish newCity.textureInfo
dobindTexture_keepInfo(s, c, e) ==
  LET bound == e = s.cl[c].loadedCity
      first == s.cl[c].loadedTextureInfo = <<>>
  IN [s EXCEPT
        !.tex = IF bound THEN e ELSE @,
        !.cl[c].textureUpdate = NoCity,
        !.ev.bind = IF bound
                    THEN @ \cup {[e |-> e, pending |-> s.ci[e].pending,
                                  first |-> first]}
                    ELSE @]

\* dobindTexture that publishes newCity.textureInfo but uploads no texture
dobindTexture_infoOnly(s, c, e) ==
  LET bound == e = s.cl[c].loadedCity
      first == s.cl[c].loadedTextureInfo = <<>>
  IN [s EXCEPT
        !.cl[c].loadedTextureInfo = IF bound THEN <<s.ci[e].textureInfo>> ELSE @,
        !.cl[c].textureUpdate = NoCity,
        !.ev.bind = IF bound
                    THEN @ \cup {[e |-> e, pending |-> s.ci[e].pending,
                                  first |-> first]}
                    ELSE @]

\* dobindTexture(canvas, newCity) run in closure c on the state bundle s
dobindTexture(s, c, e) ==
  LET bound == e = s.cl[c].loadedCity
      first == s.cl[c].loadedTextureInfo = <<>>
  IN [s EXCEPT
        !.tex = IF bound THEN e ELSE @,
        !.cl[c].loadedTextureInfo = IF bound THEN <<s.ci[e].textureInfo>> ELSE @,
        !.cl[c].textureUpdate = NoCity,
        !.ev.bind = IF bound
                    THEN @ \cup {[e |-> e, pending |-> s.ci[e].pending,
                                  first |-> first]}
                    ELSE @]

\* AllocateCity that binds every new canvas at once, not only the first
AllocateCity_alwaysBind(s, c, viewport) ==
  LET e == Len(s.ci) + 1
      city == [owner |-> c, id |-> s.cl[c].canvasId + 1, key |-> CityKey(viewport),
               pending |-> xMax(viewport) * yMax(viewport),
               textureInfo |-> TextureInfo(viewport), onceLoaded |-> FALSE]
      s1 == [s EXCEPT
               !.ci = Append(@, city),
               !.ra = Append(@, {}),
               !.fl = @ \cup {[e |-> e, x |-> t[1], y |-> t[2]] : t \in Tiles(viewport)},
               !.cl[c].canvasId = @ + 1,
               !.cl[c].loadedCity = e,
               !.ev.alloc = @ + 1,
               !.ev.fetch = @ + Cardinality(Tiles(viewport))]
  IN dobindTexture(s1, c, e)

\* AllocateCity that expects one image whatever the size of the canvas
AllocateCity_onePending(s, c, viewport) ==
  LET e == Len(s.ci) + 1
      city == [owner |-> c, id |-> s.cl[c].canvasId + 1, key |-> CityKey(viewport),
               pending |-> 1,
               textureInfo |-> TextureInfo(viewport), onceLoaded |-> FALSE]
      s1 == [s EXCEPT
               !.ci = Append(@, city),
               !.ra = Append(@, {}),
               !.fl = @ \cup {[e |-> e, x |-> t[1], y |-> t[2]] : t \in Tiles(viewport)},
               !.cl[c].canvasId = @ + 1,
               !.cl[c].loadedCity = e,
               !.ev.alloc = @ + 1,
               !.ev.fetch = @ + Cardinality(Tiles(viewport))]
  IN IF s.cl[c].loadedTextureInfo = <<>> THEN dobindTexture(s1, c, e) ELSE s1

\* the else-branch of loadData: allocate newCity and its canvas, issue fetches
AllocateCity(s, c, viewport) ==
  LET e == Len(s.ci) + 1
      city == [owner |-> c, id |-> s.cl[c].canvasId + 1, key |-> CityKey(viewport),
               pending |-> xMax(viewport) * yMax(viewport),
               textureInfo |-> TextureInfo(viewport), onceLoaded |-> FALSE]
      s1 == [s EXCEPT
               !.ci = Append(@, city),
               !.ra = Append(@, {}),
               !.fl = @ \cup {[e |-> e, x |-> t[1], y |-> t[2]] : t \in Tiles(viewport)},
               !.cl[c].canvasId = @ + 1,
               !.cl[c].loadedCity = e,
               !.ev.alloc = @ + 1,
               !.ev.fetch = @ + Cardinality(Tiles(viewport))]
  IN IF s.cl[c].loadedTextureInfo = <<>> THEN dobindTexture(s1, c, e) ELSE s1

\* loadData that tests for a load in progress before it compares the keys
loadData_deferFirst(s, c, viewport) ==
  LET lc == s.cl[c].loadedCity
      s0 == [s EXCEPT !.ev.load = @ + 1]
  IN IF ~map THEN s0
     ELSE IF viewport.zoom > MaxTileZoom THEN s0
     ELSE IF lc # NoCity /\ s.ci[lc].pending > 0
          THEN [s0 EXCEPT !.ci[lc].onceLoaded = TRUE, !.ev.defer = TRUE]
     ELSE IF lc # NoCity /\ canSkipCanvasLoad(s.ci[lc].key, CityKey(viewport))
          THEN s0
     ELSE AllocateCity(s0, c, viewport)

\* loadData that supersedes a load in progress instead of deferring
loadData_noDefer(s, c, viewport) ==
  LET lc == s.cl[c].loadedCity
      s0 == [s EXCEPT !.ev.load = @ + 1]
  IN IF ~map THEN s0
     ELSE IF viewport.zoom > MaxTileZoom THEN s0
     ELSE IF lc # NoCity /\ canSkipCanvasLoad(s.ci[lc].key, CityKey(viewport))
          THEN s0
     ELSE AllocateCity(s0, c, viewport)

\* loadData that still allocates while one image of the active entry is awaited
loadData_deferAboveOne(s, c, viewport) ==
  LET lc == s.cl[c].loadedCity
      s0 == [s EXCEPT !.ev.load = @ + 1]
  IN IF ~map THEN s0
     ELSE IF viewport.zoom > MaxTileZoom THEN s0
     ELSE IF lc # NoCity /\ canSkipCanvasLoad(s.ci[lc].key, CityKey(viewport))
          THEN s0
     ELSE IF lc # NoCity /\ s.ci[lc].pending > 1
          THEN [s0 EXCEPT !.ci[lc].onceLoaded = TRUE, !.ev.defer = TRUE]
     ELSE AllocateCity(s0, c, viewport)

\* loadData() run in closure c while the map shows viewport
loadData(s, c, viewport) ==
  LET lc == s.cl[c].loadedCity
      s0 == [s EXCEPT !.ev.load = @ + 1]
  IN IF ~map THEN s0
     ELSE IF viewport.zoom > MaxTileZoom THEN s0
     ELSE IF lc # NoCity /\ canSkipCanvasLoad(s.ci[lc].key, CityKey(viewport))
          THEN s0
     ELSE IF lc # NoCity /\ s.ci[lc].pending > 0
          THEN [s0 EXCEPT !.ci[lc].onceLoaded = TRUE, !.ev.defer = TRUE]
     ELSE AllocateCity(s0, c, viewport)

\* makeCallback that draws the image before it tests the entry
makeCallback_drawFirst(s, c, e, x, y, viewport) ==
  LET s1 == [s EXCEPT !.ci[e].pending = @ - 1, !.ra[e] = @ \cup {<<x, y>>}]
  IN IF e = s1.cl[c].loadedCity /\ is_current(s1.cl, c)
     THEN IF s1.ci[e].pending <= 0
          THEN LET s3 == [s1 EXCEPT !.cl[c].textureUpdate = e]
               IN IF s3.ci[e].onceLoaded
                  THEN [loadData([s3 EXCEPT !.ev.cont = @ + 1], c, viewport)
                          EXCEPT !.ci[e].onceLoaded = FALSE]
                  ELSE s3
          ELSE s1
     ELSE s1

\* the onload callback built by makeCallback(newCity, canvas, context, x, y)
makeCallback(s, c, e, x, y, viewport) ==
  LET s1 == [s EXCEPT !.ci[e].pending = @ - 1]
  IN IF e = s1.cl[c].loadedCity /\ is_current(s1.cl, c)
     THEN LET s2 == [s1 EXCEPT !.ra[e] = @ \cup {<<x, y>>}]
          IN IF s2.ci[e].pending <= 0
             THEN LET s3 == [s2 EXCEPT !.cl[c].textureUpdate = e]
                  IN IF s3.ci[e].onceLoaded
                     THEN [loadData([s3 EXCEPT !.ev.cont = @ + 1], c, viewport)
                             EXCEPT !.ci[e].onceLoaded = FALSE]
                     ELSE s3
             ELSE s2
     ELSE s1

\* makeErrorCallback that leaves the continuation in its slot
makeErrorCallback_keepSlot(s, c, e, viewport) ==
  LET s1 == [s EXCEPT !.ci[e].pending = @ - 1]
  IN IF e = s1.cl[c].loadedCity /\ is_current(s1.cl, c)
     THEN IF s1.ci[e].pending <= 0
          THEN LET s3 == [s1 EXCEPT !.cl[c].textureUpdate = e]
               IN IF s3.ci[e].onceLoaded
                  THEN loadData([s3 EXCEPT !.ev.cont = @ + 1], c, viewport)
                  ELSE s3
          ELSE s1
     ELSE s1

\* makeErrorCallback that does not count the failed tile
makeErrorCallback_noCount(s, c, e, viewport) ==
  IF e = s.cl[c].loadedCity /\ is_current(s.cl, c)
  THEN IF s.ci[e].pending <= 0
       THEN LET s3 == [s EXCEPT !.cl[c].textureUpdate = e]
            IN IF s3.ci[e].onceLoaded
               THEN [loadData([s3 EXCEPT !.ev.cont = @ + 1], c, viewport)
                       EXCEPT !.ci[e].onceLoaded = FALSE]
               ELSE s3
       ELSE s
  ELSE s

\* the onerror callback built by makeErrorCallback(newCity, canvas)
makeErrorCallback(s, c, e, viewport) ==
  LET s1 == [s EXCEPT !.ci[e].pending = @ - 1]
  IN IF e = s1.cl[c].loadedCity /\ is_current(s1.cl, c)
     THEN IF s1.ci[e].pending <= 0
          THEN LET s3 == [s1 EXCEPT !.cl[c].textureUpdate = e]
               IN IF s3.ci[e].onceLoaded
                  THEN [loadData([s3 EXCEPT !.ev.cont = @ + 1], c, viewport)
                          EXCEPT !.ci[e].onceLoaded = FALSE]
                  ELSE s3
          ELSE s1
     ELSE s1

\* update() that leaves the timer of the previous run outstanding
CancelTimer_keep(s, c) == s

\* if (updateTimeout) { clearTimeout(updateTimeout); updateTimeout = 0; }
\* timers: the timeouts of closure c that the browser still holds
CancelTimer(s, c) ==
  [s EXCEPT !.cl[c].timers = @ \ {s.cl[c].updateTimeout},
            !.cl[c].updateTimeout = NoTimer]

\* updateTimeout = window.setTimeout(simpleBindShim(this, update), 1000);
\* the browser returns an id that no outstanding timeout has
ArmTimer(s, c) ==
  LET used == s.cl[c].timers \cup {s.cl[c].updateTimeout}
      id == CHOOSE i \in 1 .. MaxTimers + 2 :
              i \notin used /\ \A j \in 1 .. i - 1 : j \in used
  IN [s EXCEPT !.cl[c].timers = @ \cup {id}, !.cl[c].updateTimeout = id]

\* the part of update() between the guards and getElements
UpdateHead(s, c) ==
  IF s.cl[c].textureUpdate # NoCity
  THEN dobindTexture(s, c, s.cl[c].textureUpdate)
  ELSE s

\* the part of update() from getElements on; same: getBounds() returned the
\* object stored in loaddata_bounds
UpdateTail(s, c, now, same, viewport) ==
  LET elements == CheckWindow(getElements(s.cl[c].bessel, now), now)
      s1 == IF ~(same /\ s.cl[c].loaddata_bounds) THEN loadData(s, c, viewport) ELSE s
  IN ArmTimer([s1 EXCEPT !.cl[c].loaddata_bounds = TRUE,
                          !.ev.deltat = elements.deltat,
                          !.ev.now = <<now>>,
                          !.ev.t0 = <<elements.t0>>], c)

\* update() without the comparison of the generations
update_anyGeneration(s, c, now, same, viewport) ==
  LET s0 == CancelTimer(s, c)
  IN IF ~map THEN s0
     ELSE LET s1 == UpdateHead(s0, c)
          IN IF getElementsThrows(s1.cl[c].bessel)
             THEN [s1 EXCEPT !.ev.threw = TRUE]
             ELSE UpdateTail(s1, c, now, same, viewport)

\* update() run in closure c with the clock returning now
update(s, c, now, same, viewport) ==
  LET s0 == CancelTimer(s, c)
  IN IF ~map THEN s0
     ELSE IF s0.cl[c].generation # generation THEN s0
     ELSE LET s1 == UpdateHead(s0, c)
          IN IF getElementsThrows(s1.cl[c].bessel)
             THEN [s1 EXCEPT !.ev.threw = TRUE]
             ELSE UpdateTail(s1, c, now, same, viewport)

Bundle(ev) ==
  [cl |-> closures, ci |-> cities, ra |-> raster, fl |-> inflight,
   tex |-> texture, ev |-> ev]

\* the key of the newCity that loadData formed in this handler run, if any
KeyFormed(ev, v) ==
  IF ev.load = 1 /\ map /\ v.zoom <= MaxTileZoom THEN <<CityKey(v)>> ELSE <<>>

\* the handler's starting point: closure c, city e (or NoCity)
Started(op, c, e) ==
  LET lc == closures[c].loadedCity
  IN [NoEvent(op, c) EXCEPT
        !.e = e,
        !.current = is_current(closures, c),
        !.active = e # NoCity /\ lc = e,
        !.had = e # NoCity /\ cities[e].onceLoaded,
        !.epending = IF e = NoCity THEN 0 ELSE cities[e].pending,
        !.lc = lc,
        !.lcpending = IF lc = NoCity THEN 0 ELSE cities[lc].pending,
        !.lckey = IF lc = NoCity THEN <<>> ELSE <<cities[lc].key>>]

\* the handler's result r, started from s, with the history completed
Observed(s, r, v) ==
  LET e == r.ev.e
      lc == r.ev.lc
  IN [r EXCEPT
        !.ev.pending = IF e = NoCity THEN 0 ELSE r.ci[e].pending,
        !.ev.key = KeyFormed(r.ev, v),
        !.ev.ci = IF r.ci = s.ci THEN "same"
                  ELSE IF e # NoCity /\ r.ci = [s.ci EXCEPT ![e].pending = @ - 1]
                       THEN "pending"
                  ELSE IF lc # NoCity /\ r.ci = [s.ci EXCEPT ![lc].onceLoaded = TRUE]
                       THEN "defer"
                  ELSE "other",
        !.ev.drew = (e # NoCity /\ r.ra[e] # s.ra[e]),
        !.ev.rest = (r.cl = s.cl /\ r.ra = s.ra /\ r.tex = s.tex)]

Commit(r) ==
  \E s \in {r} :
  /\ Len(s.ci) <= MaxCity
  /\ \A c \in 1 .. Len(s.cl) : Cardinality(s.cl[c].timers) <= MaxTimers
  /\ closures' = s.cl
  /\ cities' = s.ci
  /\ raster' = s.ra
  /\ inflight' = s.fl
  /\ texture' = s.tex
  /\ last' = s.ev

Init ==
  /\ generation = 0
  /\ contextLost = FALSE
  /\ map = FALSE
  /\ handler = 1
  /\ \E t \in Instants : closures = <<NewClosure(t)>>
  /\ cities = <<>>
  /\ raster = <<>>
  /\ inflight = {}
  /\ texture = NoCity
  /\ last = NoEvent("env", 0)
  /\ probe = NoProbe
  /\ layer = NewLayer(TRUE)
  /\ view = StillView

\* setMap(map) / setMap(null)
SetMap(b) ==
  /\ map # b
  /\ map' = b
  /\ last' = NoEvent("env", 0)
  /\ UNCHANGED <<generation, contextLost, handler, closures, cities,
                 raster, inflight, texture, probe, layer, view>>

\* a webglcontextlost listener that leaves the counter alone
ContextLost_noBump ==
  /\ ~contextLost
  /\ contextLost' = TRUE
  /\ Commit([Bundle(NoEvent("env", 0)) EXCEPT !.tex = NoCity])
  /\ UNCHANGED <<generation, map, handler, probe, layer, view>>

\* the webglcontextlost listener; the context's textures are gone
ContextLost ==
  /\ ~contextLost
  /\ generation < MaxLost
  /\ generation' = generation + 1
  /\ contextLost' = TRUE
  /\ Commit([Bundle(NoEvent("env", 0)) EXCEPT !.tex = NoCity])
  /\ UNCHANGED <<map, handler, probe, layer, view>>

\* the webglcontextrestored listener: initialize() builds a new closure
ContextRestored(t) ==
  /\ contextLost
  /\ contextLost' = FALSE
  /\ handler' = Len(closures) + 1
  /\ Commit([Bundle(NoEvent("env", 0)) EXCEPT !.cl = Append(@, NewClosure(t))])
  /\ UNCHANGED <<generation, map, probe, layer, view>>

\* update() of closure c runs, as this.updateHandler_ or from its own timer,
\* while the clock returns now and the map shows viewport v
UpdateRun(c, now, same, v) ==
  /\ \E fired \in (IF c = handler THEN {NoTimer} ELSE {}) \cup closures[c].timers :
       LET ev == [Started("update", c, closures[c].textureUpdate) EXCEPT
                    !.windowed = map /\ is_current(closures, c)
                                 /\ now \in WindowedInstants,
                    !.timer = fired,
                    !.armed = Cardinality(closures[c].timers)]
           s == [Bundle(ev) EXCEPT !.cl[c].timers = @ \ {fired}]
       IN \E r \in {update(s, c, now, same, v)} : Commit(Observed(s, r, v))
  /\ UNCHANGED <<generation, contextLost, map, handler, probe, layer>>

Update(c, now, same, v) == UpdateRun(c, now, same, v) /\ UNCHANGED view

\* an image request succeeds while the map shows viewport v
TileLoad(f, v) ==
  /\ f \in inflight
  /\ LET c == cities[f.e].owner
         s == [Bundle(Started("load", c, f.e)) EXCEPT !.fl = @ \ {f}]
     IN \E r \in {makeCallback(s, c, f.e, f.x, f.y, v)} :
          Commit(Observed(s, r, v))
  /\ UNCHANGED <<generation, contextLost, map, handler, probe, layer, view>>

\* an image request fails while the map shows viewport v
TileError(f, v) ==
  /\ f \in inflight
  /\ LET c == cities[f.e].owner
         s == [Bundle(Started("error", c, f.e)) EXCEPT !.fl = @ \ {f}]
     IN \E r \in {makeErrorCallback(s, c, f.e, v)} :
          Commit(Observed(s, r, v))
  /\ UNCHANGED <<generation, contextLost, map, handler, probe, layer, view>>

\* The inputs a handler run can depend on in the current state: update reads
\* the clock only behind its two guards, the viewport only in loadData, and
\* a callback reads the viewport only in a continuation.
AnyInstant == CHOOSE t \in Instants : TRUE
AnyViewport == CHOOSE v \in Viewports : TRUE

UpdateReads(c) ==
  IF ~(map /\ is_current(closures, c))
  THEN {<<AnyInstant, FALSE, AnyViewport>>}
  ELSE IF closures[c].bessel = NoBessel
  THEN Instants \X {FALSE} \X {AnyViewport}
  ELSE (Instants \X {FALSE} \X Viewports)
       \cup (IF closures[c].loaddata_bounds
             THEN Instants \X {TRUE} \X {AnyViewport} ELSE {})

CallbackReads(f) ==
  IF cities[f.e].onceLoaded THEN Viewports ELSE {AnyViewport}

Next ==
  \/ \E b \in BOOLEAN : SetMap(b)
  \/ ContextLost
  \/ \E t \in Instants : ContextRestored(t)
  \/ \E c \in 1..Len(closures) : \E i \in UpdateReads(c) : Update(c, i[1], i[2], i[3])
  \/ \E f \in inflight : \E v \in CallbackReads(f) : TileLoad(f, v)
  \/ \E f \in inflight : \E v \in CallbackReads(f) : TileError(f, v)

Spec == Init /\ [][Next]_vars

\* ---- the tile cache while the map stays attached, the context is never lost,
\* ---- update keeps running and every image request completes ----
\* the viewports the map moves between, all with zoom <= 8
SettleViews ==
  { [width |-> 1, height |-> 1, px |-> 0, py |-> 0, zoom |-> 1],
    [width |-> 257, height |-> 1, px |-> 256, py |-> 0, zoom |-> 1],
    [width |-> 1, height |-> 1, px |-> 256, py |-> 0, zoom |-> 1] }
\* the viewport changes this often at most; every change can allocate an entry
MaxMoves == MaxCity - 1

InitSettle ==
  /\ generation = 0
  /\ contextLost = FALSE
  /\ map = TRUE
  /\ handler = 1
  /\ \E t \in Instants : closures = <<NewClosure(t)>>
  /\ cities = <<>>
  /\ raster = <<>>
  /\ inflight = {}
  /\ texture = NoCity
  /\ last = NoEvent("env", 0)
  /\ probe = NoProbe
  /\ layer = NewLayer(TRUE)
  /\ \E v \in SettleViews : view = InitialView(v)

\* the user pans or resizes the map
MoveMap(v) ==
  /\ view.moves < MaxMoves
  /\ v # view.v
  /\ view' = [v |-> v, moves |-> view.moves + 1, moved |-> TRUE]
  /\ last' = NoEvent("env", 0)
  /\ UNCHANGED <<generation, contextLost, map, handler, closures, cities,
                 raster, inflight, texture, probe, layer>>

\* update() runs, from the frame scheduler or from its timer; getBounds()
\* can return the object of the previous run only if the map has not moved
Tick(now, same) ==
  /\ same => (~view.moved /\ closures[handler].loaddata_bounds)
  /\ UpdateRun(handler, now, same, view.v)
  /\ view' = [view EXCEPT !.moved = FALSE]

\* an image request completes, with the image or with an error
Complete(f) == TileLoad(f, view.v) \/ TileError(f, view.v)

NextSettle ==
  \/ \E v \in SettleViews : MoveMap(v)
  \/ \E now \in Instants : \E same \in BOOLEAN : Tick(now, same)
  \/ \E f \in inflight : Complete(f)

\* update keeps running; every image request is answered
SpecSettle ==
  /\ InitSettle /\ [][NextSettle]_vars
  /\ WF_vars(\E now \in Instants : \E same \in BOOLEAN : Tick(now, same))
  /\ WF_vars(\E f \in inflight : Complete(f))

\* ---- the CanvasLayer part of the layer, driven by the map and the browser ----
InitLayer ==
  /\ generation = 0
  /\ contextLost = FALSE
  /\ map = FALSE
  /\ handler = 1
  /\ closures = <<NewClosure(AnyInstant)>>
  /\ cities = <<>>
  /\ raster = <<>>
  /\ inflight = {}
  /\ texture = NoCity
  /\ last = NoEvent("env", 0)
  /\ probe = NoProbe
  /\ \E cancels \in BOOLEAN : layer = NewLayer(cancels)
  /\ view = StillView

\* setMap(map) / setMap(null); the API calls onRemove when the map is taken away
LayerSetMap(b) ==
  /\ map # b
  /\ map' = b
  /\ End(IF b THEN Begin("setMap") ELSE onRemove(Begin("setMap")))
  /\ LayerOnly

\* the API (after setMap(map)) or the user calls onAdd
OnAdd ==
  /\ map
  /\ End(onAdd(Begin("onAdd")))
  /\ UNCHANGED map /\ LayerOnly

OnRemove ==
  /\ End(onRemove(Begin("onRemove")))
  /\ UNCHANGED map /\ LayerOnly

Draw ==
  /\ End(draw(Begin("draw")))
  /\ UNCHANGED map /\ LayerOnly

\* the map's bounds_changed event, the div now having the given size: the
\* resize listener was added first
BoundsChanged(size) ==
  /\ map
  /\ LET L0 == [Begin("bounds_changed") EXCEPT !.mapSize = size]
         L1 == IF L0.resizeListener_ THEN resize_(L0) ELSE L0
     IN End(IF L1.centerListener_ THEN repositionCanvas_(L1) ELSE L1)
  /\ UNCHANGED map /\ LayerOnly

ScheduleUpdate ==
  /\ End(scheduleUpdate(Begin("scheduleUpdate")))
  /\ UNCHANGED map /\ LayerOnly

SetAnimate(animate) ==
  /\ End(setAnimate(Begin("setAnimate"), animate))
  /\ UNCHANGED map /\ LayerOnly

SetPaneName(paneName) ==
  /\ End(setPaneName(Begin("setPaneName"), paneName))
  /\ UNCHANGED map /\ LayerOnly

\* setUpdateHandler / setResizeHandler with a function or with null
SetUpdateHandler(set) ==
  /\ End([Begin("setUpdateHandler") EXCEPT !.updateHandler_ = set])
  /\ UNCHANGED map /\ LayerOnly

SetResizeHandler(set) ==
  /\ End([Begin("setResizeHandler") EXCEPT !.resizeHandler_ = set])
  /\ UNCHANGED map /\ LayerOnly

\* the browser runs the callback of frame request id: requestUpdateFunction_
FrameFires(id) ==
  /\ id \in layer.frames
  /\ End(update_([Begin("update_") EXCEPT !.frames = @ \ {id}]))
  /\ UNCHANGED map /\ LayerOnly

NextLayer ==
  \/ \E b \in BOOLEAN : LayerSetMap(b)
  \/ OnAdd
  \/ OnRemove
  \/ Draw
  \/ \E size \in MapSizes : BoundsChanged(size)
  \/ ScheduleUpdate
  \/ \E animate \in BOOLEAN : SetAnimate(animate)
  \/ \E paneName \in PaneNames : SetPaneName(paneName)
  \/ \E set \in BOOLEAN : SetUpdateHandler(set)
  \/ \E set \in BOOLEAN : SetResizeHandler(set)
  \/ \E id \in 1 .. MaxFrames + 2 : FrameFires(id)

SpecLayer == InitLayer /\ [][NextLayer]_vars

\* ---- the layer under a running clock, the map zoomed in beyond the tiles ----
ZoomedIn == [width |-> 1, height |-> 1, px |-> 0, py |-> 0, zoom |-> 9]

InitClock ==
  /\ generation = 0
  /\ contextLost = FALSE
  /\ map = FALSE
  /\ handler = 1
  /\ \E t \in ClockInstants : closures = <<NewClosure(t)>>
  /\ cities = <<>>
  /\ raster = <<>>
  /\ inflight = {}
  /\ texture = NoCity
  /\ last = NoEvent("env", 0)
  /\ probe = NoProbe
  /\ layer = NewLayer(TRUE)
  /\ view = StillView

NextClock ==
  \/ \E b \in BOOLEAN : SetMap(b)
  \/ ContextLost
  \/ \E t \in ClockInstants : ContextRestored(t)
  \/ \E c \in 1..Len(closures) : \E now \in ClockInstants :
        Update(c, now, FALSE, ZoomedIn)

SpecClock == InitClock /\ [][NextClock]_vars

\* ---- the fragment shader (fragmentSrc, main) ----
\* Floats are exact fractions <<numerator, denominator>>, denominator > 0, in
\* lowest terms.  The trigonometric prefix of main() is not modelled: its
\* results d, L1, L2 (one unit for all three) and fAltitude (in thousandths of
\* a radian) are inputs of the model, with the uniforms u_deltat and
\* u_obscureFactor, u_cityLightsEnabled and the mean of the night-light texel.
RECURSIVE Gcd(_, _)
Gcd(a, b) == IF b = 0 THEN a ELSE Gcd(b, a % b)
Abs(n) == IF n < 0 THEN -n ELSE n
Frac(n, d) ==
  LET g == Gcd(Abs(n), Abs(d))
      sg == IF d < 0 THEN -1 ELSE 1
  IN <<sg * (n \div g), sg * (d \div g)>>
FAdd(a, b) == Frac(a[1] * b[2] + b[1] * a[2], a[2] * b[2])
FSub(a, b) == Frac(a[1] * b[2] - b[1] * a[2], a[2] * b[2])
FMul(a, b) == Frac(a[1] * b[1], a[2] * b[2])
FDiv(a, b) == Frac(a[1] * b[2], a[2] * b[1])
FLess(a, b) == a[1] * b[2] < b[1] * a[2]
FMax(a, b) == IF FLess(a, b) THEN b ELSE a
Zero == <<0, 1>>
One == <<1, 1>>
cutoff == <<19, 20>>           \* float cutoff = 0.95
TwilightMilli == 18            \* 0.018, in thousandths of a radian
LightsFrom == <<9, 10>>        \* obs > 0.90

\* the results a division by zero can have (unspecified in GLSL ES)
Unspecified == {<<-2, 1>>, Zero, One, <<2, 1>>}

\* the eclipse term entered whatever u_deltat is
EclipseEnabled_always(in) == TRUE

\* if (u_deltat > 0.)
EclipseEnabled(in) == in.deltat > 0

\* the magnitude growing with the distance from the axis
Magnitude_rising(L1, L2, d, q) ==
  IF L1 + L2 = 0 THEN q ELSE Frac(d, L1 + L2)

\* obs = (L1 - d) / (L1 + L2); q is the result if the divisor is zero
Magnitude(L1, L2, d, q) ==
  IF L1 + L2 = 0 THEN q ELSE Frac(L1 - d, L1 + L2)

\* overrideObs = (obs - cutoff) * (1. - cutoff * u_obscureFactor) / (1. - cutoff)
\*               + cutoff * u_obscureFactor
CutoffOverride(obs, F) ==
  FAdd(FDiv(FMul(FSub(obs, cutoff), FSub(One, FMul(cutoff, F))), FSub(One, cutoff)),
       FMul(cutoff, F))

\* the eclipse term that keeps d inside the umbra as it is
EclipseTerm_noFloor(in, q) ==
  IF EclipseEnabled(in) /\ in.d < in.L1
  THEN LET inUmbra == in.d < Abs(in.L2)
           obs == Magnitude(in.L1, in.L2, in.d, q)
       IN [obs |-> obs,
           overrideObs |-> IF FLess(cutoff, obs) THEN CutoffOverride(obs, in.F)
                           ELSE IF inUmbra THEN One ELSE Zero]
  ELSE [obs |-> Zero, overrideObs |-> Zero]

\* main(), from "if (u_deltat > 0.)" to the end of that block
EclipseTerm(in, q) ==
  IF EclipseEnabled(in) /\ in.d < in.L1
  THEN LET inUmbra == in.d < Abs(in.L2)
           d == IF inUmbra THEN Abs(in.L2) ELSE in.d
           obs == Magnitude(in.L1, in.L2, d, q)
       IN [obs |-> obs,
           overrideObs |-> IF FLess(cutoff, obs) THEN CutoffOverride(obs, in.F)
                           ELSE IF inUmbra THEN One ELSE Zero]
  ELSE [obs |-> Zero, overrideObs |-> Zero]

\* a twilight band without the blend: night below the horizon, day above
Twilight_step(obs, alt) ==
  IF alt < 0 THEN One ELSE obs

\* if (fAltitude < -0.018) obs = 1.; else if (fAltitude < 0.018)
\*   obs = 1. - (1. - obs) * (1. - (0.018 - fAltitude) / 0.036);
Twilight(obs, alt) ==
  IF alt < -TwilightMilli THEN One
  ELSE IF alt < TwilightMilli
       THEN FSub(One, FMul(FSub(One, obs),
                           FSub(One, Frac(TwilightMilli - alt, 2 * TwilightMilli))))
       ELSE obs

\* the override zeroed at and above the horizon
NightOverride_byDay(overrideObs, alt) ==
  IF alt >= 0 THEN Zero ELSE overrideObs

\* if (fAltitude < 0.) overrideObs = 0.;
NightOverride(overrideObs, alt) ==
  IF alt < 0 THEN Zero ELSE overrideObs

\* if (obs > 1.) obs = 1.; else if (obs < 0.) obs = 0.;
Clamp(obs) ==
  IF FLess(One, obs) THEN One ELSE IF FLess(obs, Zero) THEN Zero ELSE obs

\* main(): gl_FragColor as [lum, alpha], with the values of obs on the way
main(in, q) ==
  LET ecl == EclipseTerm(in, q)
      blended == Twilight(ecl.obs, in.alt)
      overrideObs == NightOverride(ecl.overrideObs, in.alt)
      obs == Clamp(blended)
      alpha == FMax(overrideObs, FMul(in.F, obs))
  IN [obsEclipse |-> ecl.obs, blended |-> blended, overrideObs |-> overrideObs,
      obs |-> obs, alpha |-> alpha,
      lum |-> IF FLess(LightsFrom, obs) /\ in.lights > 0
              THEN FMul(FSub(in.light, <<1, 10>>),
                        FMul(FSub(obs, LightsFrom), <<7, 1>>))
              ELSE Zero]

\* the fragments of the model: geometry (d, L1, L2 in one unit), altitude,
\* u_obscureFactor, u_deltat (tenths), u_cityLightsEnabled, night-light mean
Distances == {0, 1, 2, 3, 4, 10, 39, 40}
Radii ==
  { [L1 |-> 40, L2 |-> -2],    \* total
    [L1 |-> 40, L2 |-> 1],     \* annular, magnitude above the cutoff at the umbra
    [L1 |-> 40, L2 |-> 2],     \* annular
    [L1 |-> 40, L2 |-> -40],   \* L1 + L2 = 0
    [L1 |-> 40, L2 |-> -50],
    [L1 |-> 3, L2 |-> 50],
    [L1 |-> -1, L2 |-> 2] }
Altitudes == {-500, -19, -18, -1, 0, 17, 18, 500}
ObscureFactors == {Zero, <<1, 2>>, One}
Deltats == {Sentinel, 0, 688}
FragmentInputs ==
  { [d |-> d, L1 |-> r.L1, L2 |-> r.L2, alt |-> alt, F |-> F, deltat |-> dt,
     lights |-> en, light |-> <<1, 2>>] :
    d \in Distances, r \in Radii, alt \in Altitudes, F \in ObscureFactors,
    dt \in Deltats, en \in {0, 1} }

\* the second fragment of a comparison: the same, one farther from the axis,
\* or one with other elements (another geometry)
OtherGeometries ==
  { [d |-> 0, L1 |-> 40, L2 |-> -2], [d |-> 10, L1 |-> 40, L2 |-> 2] }
Partners(a) ==
  {a} \cup {[a EXCEPT !.d = d2] : d2 \in {x \in Distances : x > a.d}}
      \cup {[a EXCEPT !.d = g.d, !.L1 = g.L1, !.L2 = g.L2] : g \in OtherGeometries}

\* the fragment's quotient (L1 - d) / (L1 + L2) is evaluated with divisor 0
DividesByZero(in) == in.deltat > 0 /\ in.d < in.L1 /\ in.L1 + in.L2 = 0
Quotients(in) == IF DividesByZero(in) THEN Unspecified ELSE {Zero}

\* main() run for two fragments
Shade(a, b, qa, qb) ==
  /\ probe = NoProbe
  /\ probe' = [fn |-> "main", a |-> a, b |-> b, ra |-> main(a, qa), rb |-> main(b, qb)]
  /\ ProgramIdle

NextShader ==
  /\ probe = NoProbe
  /\ \E a \in FragmentInputs : \E b \in Partners(a) :
       \E qa \in Quotients(a) : \E qb \in Quotients(b) : Shade(a, b, qa, qb)

SpecShader == Init /\ [][NextShader]_vars

\* ---- the pure functions, evaluated one at a time ----
Hour == 36000        \* tenths of a second
\* offsets from an entry's t0, in tenths of a second
SelectOffsets ==
  {-5 * Hour, -4 * Hour - 1, -4 * Hour, -1, 0, 4 * Hour - 1, 4 * Hour,
   4 * Hour + 1, 5 * Hour}

\* getEclipseDefinition(t) for t = all_bessel[i].t0 + off
Select(i, off) ==
  /\ probe' = [fn |-> "select", i |-> i, off |-> off,
               t |-> TShift(all_bessel[i].t0, off),
               r |-> getEclipseDefinition(TShift(all_bessel[i].t0, off))]
  /\ ProgramIdle

EvalHours == {-1, 0, 1}

\* getElements(t1) with bessel = all_bessel[i] and t1 = bessel.t0 + t hours:
\* every field of the result
Evaluate(i, t) ==
  /\ probe' = [fn |-> "getElements", i |-> i, t |-> t,
               r |-> getElements(i, TShift(all_bessel[i].t0, t * Hour))
                     @@ [f \in PolyFields |-> Interpolate(all_bessel_geometry[i][f], t)]
                     @@ [f \in {"tanf1", "tanf2"} |-> all_bessel_geometry[i][f]]]
  /\ ProgramIdle

\* JavaScript a % b for b > 0: the remainder has the sign of a
JsRem(a, b) == IF a >= 0 THEN a % b ELSE -((-a) % b)

\* the request without the wrap of the column at the antimeridian
TileUrl_noWrap(prefix, zoom, xOff, yOff, x, y) ==
  LET scale == Pow2(zoom)
  IN <<prefix, "nighttile", zoom, x + xOff, scale - 1 - JsRem(y + yOff, scale), "png">>

\* this.siteprefix + "/nighttile/" + zoom + "/" + (x + xOff) % scale + "/"
\*   + (scale - 1 - (y + yOff) % scale) + ".png", as its components
TileUrl(prefix, zoom, xOff, yOff, x, y) ==
  LET scale == Pow2(zoom)
  IN <<prefix, "nighttile", zoom, JsRem(x + xOff, scale),
       scale - 1 - JsRem(y + yOff, scale), "png">>

TileZooms == 0..MaxTileZoom
TileOffsets(zoom) == {-1, 0, 1, Pow2(zoom) - 1, Pow2(zoom), 300}
TileIndexes == 0..2
SitePrefixes == {"", "https://pskreporter.info"}

\* one getCityLightsImage call of the loop in loadData
TileRequest(prefix, zoom, xOff, yOff, x, y) ==
  /\ probe' = [fn |-> "tile", zoom |-> zoom, xOff |-> xOff, yOff |-> yOff,
               x |-> x, y |-> y, prefix |-> prefix,
               url |-> TileUrl(prefix, zoom, xOff, yOff, x, y)]
  /\ ProgramIdle

\* fmod(d, v) for a decimal d and a whole v > 0: q = Math.floor(d / v),
\* then d - q * v
fmod(d, v) ==
  LET floor_d == IF d[2] < 0 THEN d[1] - 1 ELSE d[1]
      q == floor_d \div v
  IN DAdd(d, <<-(q * v), 0>>)

YearHours == 8760
RECURSIVE DTimesLong(_, _)
\* k * a for a whole k >= 0 of any size, a hundred at a time
DTimesLong(k, a) ==
  IF k < 100 THEN DTimes(k, a)
  ELSE DAdd(DTimes(100, DTimesLong(k \div 100, a)), DTimes(k % 100, a))

\* getSituation(currentTime) for the instant h whole hours after the epoch
\* (h < 0: before it), on a machine whose local time is tz hours ahead of
\* UTC (getYear() is the local year).  The years 1969 to 1971 have 8760 hours.
\*   julianHours  24 * fJulianDate
\*   fLocalTime   currentTime % 86400000 / (1000 * 3600.0)
\*   yearFrac     8760 * fmod((fJulianDate - 1) / 365, 1)
\*   degrees      24 * fmod(279.134 + 0.985647 * fJulianDate, 360)
getSituation(h, tz) ==
  LET getYear == 70 + ((h + tz) \div YearHours)
      julianHours == 24 + h - (getYear - 70) * 8766
  IN [julianHours |-> julianHours,
      fLocalTime |-> JsRem(h, 24),
      yearFrac |-> fmod(<<julianHours - 24, 0>>, YearHours),
      degrees |-> fmod(DAdd(<<6699, 2160000>>,
                            IF julianHours >= 0
                              THEN DTimesLong(julianHours, <<0, 9856470>>)
                              ELSE DTimesLong(-julianHours, <<0, -9856470>>)),
                       24 * 360)]

SituationHours ==
  {-2 * YearHours, -YearHours - 1, -YearHours, -25, -24, -23, -1, 0, 1, 23, 24, 25,
   YearHours - 1, YearHours, 2 * YearHours - 1}
TimeZones == {-1, 0, 1}

Situation(h, tz) ==
  /\ probe' = [fn |-> "getSituation", h |-> h, tz |-> tz, r |-> getSituation(h, tz)]
  /\ ProgramIdle

\* ---- the sample loop of loadData ----
\* Rows are counted in device pixels: the world is 256 * resolutionScale *
\* scale rows high, and tl.y, clamped at 0 and centred by centerCoord, is the
\* middle of row `top`; the y of sample i is the middle of row top + i.
WorldRows(zoom) == 256 * resolutionScale * Pow2(zoom)
TopRow(top) == IF top <= 0 THEN 0 ELSE top
\* if (y >= 256) for sample i
PastWorld(g, i) == TopRow(g.top) + i >= WorldRows(g.zoom)

\* for (var i = 0; i < height; i += 1) { ... if (y >= 256) break; ...
\*   point_count = i * 2; } started at i with point_count = pc
RECURSIVE SampleLoop(_, _, _)
SampleLoop(g, i, pc) ==
  IF i >= g.height THEN pc
  ELSE IF PastWorld(g, i) THEN pc
  ELSE SampleLoop(g, i + 1, i * 2)

\* the raster rows of the viewport whose world y is below 256
RowsInWorld(g) == {i \in 0 .. g.height - 1 : ~PastWorld(g, i)}

GridHeights == 0..4
GridZooms == {0, 1}
GridTops(zoom) == {-1, 0, WorldRows(zoom) - 2, WorldRows(zoom) - 1, WorldRows(zoom)}
\* what an earlier loadData of the same closure left in point_count
EarlierCounts == {0, 2, 6}

\* the sample loop of one loadData, and the count the next drawArrays uses
Samples(pc, g) ==
  /\ probe' = [fn |-> "samples", before |-> pc, g |-> g,
               point_count |-> SampleLoop(g, 0, pc)]
  /\ ProgramIdle

\* ---- the raster of a new cache entry and its tile grid ----
RasterLengths == {0, 1, 2, 256, 257, 258, 513, 769, 1025, 1920, 4000}
ResolutionScales == {<<1, 1>>, <<3, 2>>, <<2, 1>>, <<3, 1>>}

\* loadData for a canvas of width x height on a display of resolution scale
\* rs: the size of the cityLights canvas and the numbers of tile columns and
\* rows; tile (x, y) is drawn at (x * 256, y * 256)
Raster(width, height, rs) ==
  /\ probe' = [fn |-> "raster", width |-> width, height |-> height, rs |-> rs,
               canvas |-> <<canvasSide(width, rs) * 2, canvasSide(height, rs) * 2>>,
               xMax |-> tileCount(width, rs), yMax |-> tileCount(height, rs)]
  /\ ProgramIdle

\* ---- loadData and the image callbacks of the variant without generations ----
\* xMax / yMax = ((len / resolutionScale) + 255) / 256, as a fraction
\* <<numerator, denominator>>: the variant does not round it
variant_xMax(len, rs) == <<WithMargin(len, rs)[1], 256 * WithMargin(len, rs)[2]>>

\* newCity.pending = xMax * yMax
variant_pending(width, height, rs) ==
  <<variant_xMax(width, rs)[1] * variant_xMax(height, rs)[1],
    variant_xMax(width, rs)[2] * variant_xMax(height, rs)[2]>>

\* for (var x = 0; x < xMax; x += 1) for (var y = 0; y < yMax; y += 1):
\* the requests issued
variant_fetches(width, height, rs) ==
  CeilDiv(variant_xMax(width, rs)[1], variant_xMax(width, rs)[2])
    * CeilDiv(variant_xMax(height, rs)[1], variant_xMax(height, rs)[2])

\* the callbacks of `left` requests run on an entry that stays active:
\* newCity.pending -= 1; if (newCity.pending <= 0) textureUpdate = ...;
\* the result is how many of them set textureUpdate (and so ran onceLoaded)
RECURSIVE variant_completions(_, _, _)
variant_completions(pending, left, set) ==
  IF left = 0 THEN set
  ELSE LET p == <<pending[1] - pending[2], pending[2]>>
       IN variant_completions(p, left - 1, IF p[1] <= 0 THEN set + 1 ELSE set)

VariantLoad(width, height, rs) ==
  /\ probe' = [fn |-> "variant", width |-> width, height |-> height, rs |-> rs,
               pending |-> variant_pending(width, height, rs),
               fetches |-> variant_fetches(width, height, rs),
               binds |-> variant_completions(variant_pending(width, height, rs),
                                             variant_fetches(width, height, rs), 0)]
  /\ ProgramIdle

NextPure ==
  /\ probe = NoProbe
  /\ \/ \E i \in 1..Last : \E off \in SelectOffsets : Select(i, off)
     \/ \E i \in 1..Last : \E t \in EvalHours : Evaluate(i, t)
     \/ \E prefix \in SitePrefixes : \E zoom \in TileZooms :
          \E xOff, yOff \in TileOffsets(zoom) : \E x, y \in TileIndexes :
             TileRequest(prefix, zoom, xOff, yOff, x, y)
     \/ \E h \in SituationHours : \E tz \in TimeZones : Situation(h, tz)
     \/ \E pc \in EarlierCounts : \E height \in GridHeights : \E zoom \in GridZooms :
          \E top \in GridTops(zoom) :
             Samples(pc, [height |-> height, zoom |-> zoom, top |-> top])
     \/ \E width, height \in RasterLengths : \E rs \in ResolutionScales :
          Raster(width, height, rs)
     \/ \E width, height \in {len \in RasterLengths : len <= 1025} :
          \E rs \in ResolutionScales : VariantLoad(width, height, rs)

SpecPure == Init /\ [][NextPure]_vars

TypeOK ==
  /\ generation \in 0..MaxLost
  /\ Len(cities) <= MaxCity
  /\ \A f \in inflight : f.e \in 1..Len(cities)

\* ---- properties ----
IsCallback == last.op \in {"load", "error"}
\* the closure of the last handler run was created before a generation bump
CreatedBeforeBump == closures[last.c].generation < generation
CurrentClosure == closures[last.c].generation = generation
\* loadData formed a key in the last handler run, and the active entry has it
SameKeyCall == last.load = 1 /\ last.key # <<>> /\ last.key = last.lckey
OtherKeyCall == last.load = 1 /\ last.key # <<>> /\ last.key # last.lckey

\* C1: a completion callback (load or error) of a closure created before a
\* webglcontextlost bump is inert whatever pending reaches: it changes no
\* raster, no closure variable (textureUpdate, loadedCity) and no texture,
\* binds nothing, calls no loadData and invokes no continuation.
C1_StaleCallbackInert ==
  (IsCallback /\ CreatedBeforeBump) =>
     /\ last.rest
     /\ ~last.drew
     /\ last.bind = {}
     /\ last.load = 0
     /\ last.cont = 0
     /\ last.alloc = 0

C1_Witness ==
  IsCallback /\ CreatedBeforeBump /\ last.had /\ last.pending = 0

\* C2 as stated: a completion whose entry is not active or whose generation
\* is stale leaves all cache state unchanged, the pending count included.
C2_IgnoredEntirely ==
  (IsCallback /\ (~last.active \/ CreatedBeforeBump)) =>
     last.ci = "same" /\ last.rest

\* C2 amended: such a completion changes nothing but the entry's pending
\* count, which it decrements by one.
C2_IgnoredButCounted ==
  (IsCallback /\ (~last.active \/ CreatedBeforeBump)) =>
     /\ last.ci = "pending"
     /\ last.pending = last.epending - 1
     /\ last.rest
     /\ last.cont = 0

C2_Witness ==
  IsCallback /\ CreatedBeforeBump /\ last.op = "load" /\ last.epending = 2

\* C3: loadData called with the key of the active entry allocates no raster
\* and issues no fetch, whether the entry is loading or complete.
C3_SameKeyNoLoad ==
  SameKeyCall =>
     /\ last.alloc = 0
     /\ last.fetch = 0
     /\ closures[last.c].loadedCity = last.lc

C3_Witness ==
  SameKeyCall /\ last.op = "update" /\ last.lcpending = 0

\* C4 as stated: the second call with the same key, made while the first
\* load is pending, registers a deferred continuation.
C4_SecondCallDefers ==
  (last.op = "update" /\ SameKeyCall /\ last.lcpending > 0) => last.defer

\* C4 amended: the second call with the same key, made while the first load
\* is pending, is a no-op: one raster allocation in all, no continuation
\* registered by it, no entry changed.
C4_SecondCallNoop ==
  (last.op = "update" /\ SameKeyCall /\ last.lcpending > 0) =>
     /\ ~last.defer
     /\ last.alloc = 0
     /\ last.ci = "same"
     /\ cities[last.lc].pending = last.lcpending

C4_Witness ==
  /\ last.op = "update" /\ SameKeyCall /\ last.lcpending > 0
  /\ ~cities[last.lc].onceLoaded

\* C5: loadData called with another key while the active entry is pending
\* allocates and fetches nothing, leaves the entry active with its pending
\* count, and stores the continuation in the entry's one slot; when the
\* continuation runs and forms a key, the active entry has that key.
C5_DeferLatest ==
  /\ (last.op = "update" /\ OtherKeyCall /\ last.lc # NoCity /\ last.lcpending > 0) =>
        /\ last.defer
        /\ last.alloc = 0
        /\ last.fetch = 0
        /\ last.ci \in {"defer", "same"}
        /\ closures[last.c].loadedCity = last.lc
        /\ cities[last.lc].onceLoaded
        /\ cities[last.lc].pending = last.lcpending
  /\ (last.cont = 1 /\ last.key # <<>>) =>
        /\ closures[last.c].loadedCity # NoCity
        /\ last.key = <<cities[closures[last.c].loadedCity].key>>

C5_Witness ==
  /\ last.op = "update" /\ OtherKeyCall /\ last.lcpending > 0
  /\ last.defer /\ last.ci = "same"

\* C6: a stored continuation is invoked by the completion that brings its
\* active, current entry's pending to 0, once, and the slot is then empty;
\* nothing else invokes one, no continuation is stored during the
\* invocation, and one waiting in a current closure waits on the active,
\* loading entry.
C6_ContinuationOnce ==
  /\ last.cont > 0 =>
        /\ last.cont = 1
        /\ IsCallback /\ last.active /\ CurrentClosure
        /\ last.had
        /\ last.pending = 0
        /\ ~cities[last.e].onceLoaded
        /\ ~last.defer
  /\ (IsCallback /\ last.active /\ CurrentClosure /\ last.had /\ last.pending = 0) =>
        last.cont = 1
  /\ \A e \in 1..Len(cities) :
        (cities[e].onceLoaded /\ closures[cities[e].owner].generation = generation) =>
           cities[e].pending > 0 /\ closures[cities[e].owner].loadedCity = e

C6_Witness ==
  last.cont = 1 /\ last.op = "error" /\ last.alloc = 1

\* C7: a raster is bound only when its pending count is 0, except the first
\* raster of a closure (loadedTextureInfo null), bound when it is allocated.
C7_BindWhenComplete ==
  \A b \in last.bind :
     \/ b.pending = 0
     \/ b.first /\ last.alloc = 1 /\ b.e = Len(cities)

C7_Witness ==
  \E b \in last.bind : ~b.first /\ b.pending = 0

\* C8 as stated: at the update tick after a raster's last completion the
\* raster is bound, also when a continuation was waiting on it.
C8_AlwaysBound ==
  (last.op = "update" /\ map /\ CurrentClosure /\ last.e # NoCity) =>
     \E b \in last.bind : b.e = last.e

\* C8 amended: the last completion of an active, current raster schedules its
\* bind; if no continuation was waiting the raster stays active, and the
\* update tick that finds it active binds it and publishes its textureInfo;
\* a raster superseded by its continuation is not bound.
C8_BoundIfStillActive ==
  /\ (IsCallback /\ last.active /\ CurrentClosure /\ last.pending = 0) =>
        closures[last.c].textureUpdate = last.e
  /\ (IsCallback /\ last.active /\ CurrentClosure /\ last.pending = 0 /\ ~last.had) =>
        closures[last.c].loadedCity = last.e
  /\ (last.op = "update" /\ map /\ CurrentClosure /\ last.e # NoCity) =>
        IF last.lc = last.e
        THEN /\ \E b \in last.bind : b.e = last.e /\ b.pending = 0
             /\ texture = last.e
             /\ closures[last.c].loadedTextureInfo = <<cities[last.e].textureInfo>>
        ELSE \A b \in last.bind : b.e # last.e

C8_Witness ==
  /\ last.op = "update" /\ map /\ CurrentClosure
  /\ last.e # NoCity /\ last.lc = last.e /\ last.bind # {}

\* C9: a failed fetch counts like a successful one: pending goes down by
\* one, nothing is drawn, and the failure that completes an active, current
\* entry schedules the bind and invokes a stored continuation; an entry all
\* of whose fetches completed has pending 0.
C9_FailureCounts ==
  /\ IsCallback => last.pending = last.epending - 1
  /\ last.op = "error" => ~last.drew
  /\ (last.op = "error" /\ last.active /\ CurrentClosure /\ last.pending = 0) =>
        /\ closures[last.c].textureUpdate = last.e
        /\ last.had => last.cont = 1
  /\ \A e \in 1..Len(cities) :
        (\A f \in inflight : f.e # e) => cities[e].pending = 0

C9_Witness ==
  /\ last.op = "error" /\ last.active /\ CurrentClosure
  /\ last.epending = 1 /\ last.had /\ last.cont = 1
  /\ raster[last.e] = {}
  /\ cities[last.e].key.width = 1024

\* C10: when no dataset window contains the instant, update completes and
\* hands deltat = -1 to the renderer.
C10_SentinelNoFailure ==
  (last.op = "update" /\ map /\ CurrentClosure /\ ~last.windowed) =>
     ~last.threw /\ last.deltat = Sentinel

\* the entries whose window [t0 - 4h, t0 + 4h] contains t
Containing(t) ==
  {j \in 1..Last : ~AbsDiffGreater(t, all_bessel[j].t0, WindowSecs)}

\* C11 as stated: getEclipseDefinition returns the one entry whose window
\* contains now, and none when no window contains now (a gap, or before the
\* first window).
C11_SelectsContaining ==
  probe.fn = "select" =>
     IF Containing(probe.t) = {} THEN probe.r = NoBessel
     ELSE Containing(probe.t) = {probe.r}

\* C11 amended: getEclipseDefinition returns the first entry whose window
\* ends after now: for now = t0 + off of entry i with |off| <= 5 h, entry i
\* when off < 4 h (inside the window, or up to an hour before it), else the
\* entry after i, and none only after the last entry's window.
C11_SelectsNextEnding ==
  probe.fn = "select" =>
     /\ probe.off < 4 * Hour => probe.r = probe.i
     /\ (probe.off >= 4 * Hour /\ probe.i < Last) => probe.r = probe.i + 1
     /\ (probe.off >= 4 * Hour /\ probe.i = Last) => probe.r = NoBessel
     /\ (Containing(probe.t) # {} /\ probe.off # 4 * Hour) =>
           Containing(probe.t) = {probe.r}

C11_Witness ==
  /\ probe.fn = "select" /\ probe.off = -5 * Hour /\ probe.i = 2
  /\ Containing(probe.t) = {} /\ probe.r = 2

\* C13: getElements evaluated at now = t0 of its dataset returns, for each of
\* x, y, d, l1, l2, mu, the constant coefficient, and t0, deltat, tanf1,
\* tanf2 as they are in the table; d = 11.8669596 for t0 = 1503338331.2.
C13_ConstantAtT0 ==
  (probe.fn = "getElements" /\ probe.t = 0) =>
     /\ \A f \in PolyFields : probe.r[f] = all_bessel_geometry[probe.i][f][1]
     /\ probe.r.t0 = all_bessel[probe.i].t0
     /\ probe.r.deltat = all_bessel[probe.i].deltat
     /\ probe.r.tanf1 = all_bessel_geometry[probe.i].tanf1
     /\ probe.r.tanf2 = all_bessel_geometry[probe.i].tanf2
     /\ probe.r.t0 = <<1503338331, 2>> => probe.r.d = <<11, 8669596>>

C13_Witness ==
  /\ probe.fn = "getElements" /\ probe.t = 0
  /\ probe.r.t0 = <<1503338331, 2>> /\ probe.r.d = <<11, 8669596>>

\* the last handler run was an update that got as far as the elements
Rendered ==
  last.op = "update" /\ map /\ CurrentClosure /\ ~last.threw

\* |a - b| in tenths of a second exceeds four hours
FartherThanWindow(a, b) ==
  IF a[1] - b[1] > 5 * 3600 \/ b[1] - a[1] > 5 * 3600 THEN TRUE
  ELSE LET d == 10 * (a[1] - b[1]) + a[2] - b[2]
       IN d > 4 * Hour \/ -d > 4 * Hour

\* C12: whenever update reads an instant inside the window of some entry,
\* also a window that began after the layer was initialised with an earlier
\* entry selected, it hands deltat > 0 to the renderer.
C12_FollowsClock ==
  (Rendered /\ last.windowed /\ TLess(last.t0[1], last.now[1])) =>
     last.deltat > 0

\* C14: update hands deltat = -1 to the renderer exactly when now is more
\* than four hours from the selected dataset's t0; otherwise the dataset's
\* own deltat; t0 is handed on as it is in the dataset.
C14_MarkerIffOutside ==
  Rendered =>
     LET sel == all_bessel[closures[last.c].bessel]
     IN /\ last.deltat = Sentinel <=> FartherThanWindow(last.now[1], sel.t0)
        /\ ~FartherThanWindow(last.now[1], sel.t0) => last.deltat = sel.deltat
        /\ last.t0 = <<sel.t0>>

C14_Witness ==
  /\ Rendered /\ last.deltat = Sentinel
  /\ last.now[1] = TShift(last.t0[1], 5 * Hour)

\* a <= b for fractions
FLeq(a, b) == ~FLess(b, a)
C16_TwilightBlend ==
  probe.fn = "main" =>
     LET alt == probe.a.alt
         obsEclipse == probe.ra.obsEclipse
         blend(x) == FSub(One, FMul(FSub(One, obsEclipse), Frac(x + 18, 36)))
     IN /\ (-18 <= alt /\ alt < 18) => probe.ra.blended = blend(alt)
        /\ alt < -18 => probe.ra.blended = One
        /\ alt = -18 => probe.ra.blended = One
        /\ alt >= 18 => probe.ra.blended = obsEclipse
        /\ alt = 17 => FSub(probe.ra.blended, obsEclipse)
                         = FMul(FSub(One, obsEclipse), <<1, 36>>)
        /\ (alt = 0 /\ obsEclipse = Zero) => probe.ra.blended = <<1, 2>>

C16_Witness ==
  /\ probe.fn = "main" /\ probe.a.alt = 0 /\ probe.a.deltat = Sentinel
  /\ probe.ra.obsEclipse = Zero /\ probe.ra.blended = <<1, 2>>

\* C17 as stated: for every fragment with altitude >= 0 the opacity is
\* obscureFactor * obs, whatever the eclipse geometry.
C17_OverrideZeroByDay ==
  (probe.fn = "main" /\ ~DividesByZero(probe.a) /\ probe.a.alt >= 0) =>
     probe.ra.alpha = FMul(probe.a.F, probe.ra.obs)

\* C17 amended: overrideObs is zeroed when the altitude is below 0: there the
\* opacity is obscureFactor * obs whatever the eclipse geometry; at altitude
\* >= 0 the override stands, and a fragment inside the umbra whose magnitude
\* is not above the cutoff has opacity 1.
C17_OverrideZeroByNight ==
  probe.fn = "main" =>
     /\ probe.a.alt < 0 =>
           /\ probe.ra.overrideObs = Zero
           /\ probe.ra.alpha = FMul(probe.a.F, probe.ra.obs)
     /\ (probe.a.alt >= 0 /\ probe.a.deltat > 0 /\ probe.a.d < probe.a.L1
         /\ probe.a.d < Abs(probe.a.L2) /\ ~FLess(cutoff, probe.ra.obsEclipse)) =>
           probe.ra.alpha = One

C17_Witness ==
  /\ probe.fn = "main" /\ probe.a.alt = -1 /\ probe.a.deltat > 0
  /\ probe.a.L1 = 40 /\ probe.a.L2 = 2 /\ probe.a.d = 0
  /\ probe.a.F = <<1, 2>> /\ FLess(probe.ra.alpha, <<1, 2>>)

\* the second fragment is the first one moved away from the axis, inside L1
FartherInside ==
  /\ probe.fn = "main"
  /\ probe.b = [probe.a EXCEPT !.d = probe.b.d]
  /\ probe.a.d < probe.b.d /\ probe.b.d < probe.a.L1

\* C18: for fixed L1, L2, altitude and obscureFactor the opacity does not
\* increase with d over 0 <= d < L1 (L1 + L2 not zero), across the umbra edge
\* and the cutoff, for L2 < 0 and L2 > 0.
C18_MonotoneInDistance ==
  (FartherInside /\ probe.a.L1 + probe.a.L2 # 0) =>
     FLeq(probe.rb.alpha, probe.ra.alpha)

C18_Witness ==
  /\ FartherInside /\ probe.a.deltat > 0 /\ probe.a.alt = 500
  /\ probe.a.L1 = 40 /\ probe.a.L2 = -2 /\ probe.a.d = 3 /\ probe.b.d = 4
  /\ FLess(cutoff, probe.ra.obsEclipse) /\ ~FLess(cutoff, probe.rb.obsEclipse)
  /\ FLess(probe.rb.alpha, probe.ra.alpha)

\* the two fragments agree on everything but d, L1, L2
SameButGeometry ==
  /\ probe.fn = "main"
  /\ probe.b = [probe.a EXCEPT !.d = probe.b.d, !.L1 = probe.b.L1, !.L2 = probe.b.L2]

\* C19: with u_deltat <= 0 two fragments that differ only in what the
\* elements x, y, d, l1, l2, mu, tanf1, tanf2 determine (d, L1, L2) have the
\* same opacity and luminance.
C19_DisabledIgnoresElements ==
  (SameButGeometry /\ probe.a.deltat <= 0) =>
     probe.ra.alpha = probe.rb.alpha /\ probe.ra.lum = probe.rb.lum

C19_Witness ==
  /\ SameButGeometry /\ probe.a.deltat = Sentinel
  /\ probe.a.L1 = 40 /\ probe.a.L2 = 2 /\ probe.a.d = 0
  /\ probe.b.L2 = -2 /\ probe.b.d = 0
  /\ probe.a.alt = -19 /\ probe.a.lights = 1 /\ probe.a.F = <<1, 2>>
  /\ probe.ra.lum = <<7, 25>> /\ probe.ra.alpha = <<1, 2>>

\* C20: a tile request for zoom z in 0..8 and offsets xOff, yOff >= 0 is
\* {prefix}/nighttile/z/X/Y.png with X = (x + xOff) mod 2^z and
\* Y = 2^z - 1 - ((y + yOff) mod 2^z), both in 0 .. 2^z - 1.
C20_TileIndexesInRange ==
  (probe.fn = "tile" /\ probe.xOff >= 0 /\ probe.yOff >= 0) =>
     LET n == Pow2(probe.zoom)
     IN /\ probe.url = <<probe.prefix, "nighttile", probe.zoom,
                         (probe.x + probe.xOff) % n,
                         n - 1 - ((probe.y + probe.yOff) % n), "png">>
        /\ probe.url[4] \in 0 .. n - 1
        /\ probe.url[5] \in 0 .. n - 1

C20_Witness ==
  /\ probe.fn = "tile" /\ probe.zoom = 1 /\ probe.xOff = 1 /\ probe.x = 1
  /\ probe.yOff = 0 /\ probe.y = 0
  /\ probe.url = <<"", "nighttile", 1, 0, 1, "png">>

\* a decimal r with 0 <= r < v
InRemainderRange(r, v) == r[1] >= 0 /\ r[2] >= 0 /\ r[1] < v

\* C21: every modular reduction of the solar position estimator gives a
\* non-negative remainder, also for instants before the epoch: both fmod
\* results lie in [0, v) and 0 <= fLocalTime < 24.
C21_NonNegativeRemainders ==
  probe.fn = "getSituation" =>
     /\ InRemainderRange(probe.r.yearFrac, YearHours)
     /\ InRemainderRange(probe.r.degrees, 24 * 360)
     /\ probe.r.fLocalTime >= 0 /\ probe.r.fLocalTime < 24

\* C22: in all_bessel consecutive t0 values increase by more than 8 hours
\* (twice the window), so at most one entry's window contains any instant.
C22_WindowsDisjoint ==
  /\ \A i \in 1 .. Last - 1 :
        TLess(TAdd(all_bessel[i].t0, 2 * WindowSecs), all_bessel[i + 1].t0)
  /\ probe.fn = "select" => Cardinality(Containing(probe.t)) <= 1

C22_Witness ==
  /\ probe.fn = "select" /\ probe.off = 4 * Hour
  /\ Containing(probe.t) = {probe.i}

\* a webglcontextlost event is delivered in this step
ContextLostStep == ~contextLost /\ contextLost'

\* C23: the generation counter starts at 0, goes up by exactly 1 with each
\* webglcontextlost event and is changed by no other operation, so it never
\* decreases.
C23_GenerationMonotone ==
  /\ generation = 0
  /\ [][/\ generation' >= generation
        /\ ContextLostStep => generation' = generation + 1
        /\ ~ContextLostStep => generation' = generation]_vars

C23_Witness ==
  /\ generation = 1 /\ ~contextLost /\ Len(closures) = 2
  /\ last.op = "load"

\* C24: after loadData the vertex count of the next draw is twice the number
\* of raster rows of the viewport whose world y is below 256, whatever an
\* earlier viewport left in it.
C24_OnePairPerRow ==
  probe.fn = "samples" => probe.point_count = 2 * Cardinality(RowsInWorld(probe.g))

\* the image requests of city e whose onload / onerror has not fired yet
Outstanding(e) == {f \in inflight : f.e = e}

\* C25: a cache entry's pending count starts as the number of tile fetches
\* issued for it and is, in every later state, the number of those fetches
\* that have not completed: never negative, and 0 exactly when the last one
\* has completed.
C25_PendingCountsFetches ==
  /\ \A e \in 1 .. Len(cities) :
        /\ cities[e].pending = Cardinality(Outstanding(e))
        /\ cities[e].pending >= 0
  /\ last.alloc = 1 => cities[Len(cities)].pending = last.fetch
  /\ IsCallback => last.pending = last.epending - 1

C25_Witness ==
  /\ IsCallback /\ last.epending = 2 /\ last.pending = 1
  /\ Cardinality(Outstanding(last.e)) = 1

\* the user handlers that the last call invoked
Called == {layer.ev.calls[i] : i \in 1 .. Len(layer.ev.calls)}
\* the step is a call of op
IsCall(op) == layer'.ev.op = op
\* the step changes no field of the layer and no frame request
NoEffect == Fields(layer') = Fields(layer) /\ layer'.frames = layer.frames

\* C26: scheduleUpdate has no effect when a frame callback is already
\* scheduled or the layer is not added, and as long as no onRemove has left a
\* request behind (a browser without cancelAnimationFrame) at most one frame
\* request is outstanding, the one whose id the layer holds.
C26_OneFrameOutstanding ==
  /\ [](~layer.leaked =>
          /\ Cardinality(layer.frames) <= 1
          /\ layer.frames \subseteq {layer.requestAnimationFrameId_})
  /\ [][(/\ IsCall("scheduleUpdate")
         /\ ~layer.isAdded_ \/ layer.requestAnimationFrameId_ # NoFrame)
        => NoEffect]_vars

C26_Witness ==
  /\ layer.ev.op = "scheduleUpdate" /\ layer.isAdded_ /\ ~layer.ev.changed
  /\ ~layer.leaked /\ layer.frames = {layer.requestAnimationFrameId_}

\* C27: a run of update_ on an added layer invokes the resize handler iff
\* needsResize_ is true and a resize handler is set, and before the update
\* handler; needsResize_ is cleared only by such a run, so a resize without a
\* handler stays pending for a handler installed later.
C27_ResizeBeforeUpdate ==
  /\ []((layer.ev.op = "update_" /\ layer.ev.added) =>
          layer.ev.calls \in {<<>>, <<"resize">>, <<"update">>, <<"resize", "update">>})
  /\ [][/\ (IsCall("update_") /\ layer.isAdded_) =>
             (("resize" \in Called') <=> (layer.needsResize_ /\ layer.resizeHandler_))
        /\ (layer.needsResize_ /\ ~layer'.needsResize_) =>
             (IsCall("update_") /\ "resize" \in Called')]_vars

C27_Witness ==
  /\ layer.ev.op = "update_" /\ layer.ev.added
  /\ layer.ev.calls = <<"resize", "update">>
  /\ ~layer.needsResize_ /\ layer.canvas = <<600, 150>>

\* C28: whenever isAdded_ is false, topLeft_, centerListener_ and
\* resizeListener_ are null.
C28_RemovedMeansNull ==
  ~layer.isAdded_ =>
     ~layer.topLeft_ /\ ~layer.centerListener_ /\ ~layer.resizeListener_

\* C29: a frame that fires while the layer is not added invokes neither the
\* resize nor the update handler, also a frame requested before an onRemove
\* whose cancel did nothing; onRemove on a layer that is not added changes
\* nothing.
C29_NoHandlerWhenRemoved ==
  /\ []((layer.ev.op = "update_" /\ ~layer.isAdded_) => layer.ev.calls = <<>>)
  /\ [][(IsCall("onRemove") /\ ~layer.isAdded_) =>
           (NoEffect /\ ~layer'.ev.threw)]_vars

C29_Witness ==
  /\ layer.ev.op = "update_" /\ ~layer.isAdded_ /\ layer.leaked
  /\ layer.updateHandler_ /\ layer.resizeHandler_ /\ layer.needsResize_
  /\ layer.ev.calls = <<>>

\* the call checked the pane name: it threw iff the stored name is no
\* MapPane name, and otherwise the canvas is in that pane
Validated ==
  /\ layer.ev.threw <=> layer.paneName_ \notin MapPanes
  /\ ~layer.ev.threw => layer.parentElement = layer.paneName_
\* setPaneName on a layer that is not added only stores the name
OnlyStoresName ==
  (IsCall("setPaneName") /\ ~layer.isAdded_) =>
     /\ ~layer'.ev.threw
     /\ Fields(layer') = [Fields(layer) EXCEPT !.paneName_ = layer'.paneName_]
     /\ layer'.frames = layer.frames

\* C30 as stated: setPaneName on a layer that is not added never throws and
\* only stores the name; setPaneName on an added layer, and every onAdd,
\* throw when the stored name is no MapPane name and otherwise append the
\* canvas to that pane.
C30_ValidatedOnceAdded ==
  /\ []((\/ layer.ev.op = "setPaneName" /\ layer.ev.added
         \/ layer.ev.op = "onAdd") => Validated)
  /\ [][OnlyStoresName]_vars

\* C30 amended: the same, for onAdd on a layer that is not added; onAdd on a
\* layer that is already added returns at once, whatever the stored name.
C30_ValidatedWhenAdding ==
  /\ []((\/ layer.ev.op = "setPaneName" /\ layer.ev.added
         \/ layer.ev.op = "onAdd" /\ ~layer.ev.added) => Validated)
  /\ []((layer.ev.op = "onAdd" /\ layer.ev.added) =>
          (~layer.ev.threw /\ ~layer.ev.changed))
  /\ [][OnlyStoresName]_vars

C30_Witness ==
  /\ layer.ev.op = "onAdd" /\ ~layer.ev.added /\ layer.ev.threw
  /\ layer.isAdded_ /\ layer.paneName_ = "noSuchPane"
  /\ layer.parentElement = NoPane

\* C31: a run of update_ on an added, animated layer leaves a frame request
\* outstanding (and has invoked the update handler, if one is set), so the
\* handler runs once per frame; a run on a layer that is not animated
\* requests no frame.
C31_AnimatedKeepsRequesting ==
  [][/\ (IsCall("update_") /\ layer.isAdded_ /\ layer.isAnimated_) =>
          /\ layer'.requestAnimationFrameId_ # NoFrame
          /\ layer'.requestAnimationFrameId_ \in layer'.frames
          /\ layer.updateHandler_ => "update" \in Called'
     /\ (IsCall("update_") /\ ~layer.isAnimated_) =>
          /\ layer'.requestAnimationFrameId_ = NoFrame
          /\ layer'.frames \subseteq layer.frames]_vars

C31_Witness ==
  /\ layer.ev.op = "update_" /\ layer.isAdded_ /\ layer.isAnimated_
  /\ layer.ev.calls = <<"update">>
  /\ layer.frames = {layer.requestAnimationFrameId_}

\* C40: whenever isAdded_ is true, the resize listener and the reposition
\* listener are registered, also after an onAdd in which setPane_ threw.
C40_AddedMeansListening ==
  layer.isAdded_ => layer.resizeListener_ /\ layer.centerListener_

\* the entries whose t0 + 4 h is after t
EndingAfter(t) ==
  {j \in 1 .. Last : TLess(t, TAdd(all_bessel[j].t0, WindowSecs))}

\* C32: getEclipseDefinition returns the first entry in table order with
\* t0 + 4 h > now, strictly, so at now = t0 + 4 h it passes that entry over;
\* it returns none exactly when now >= (last entry's t0) + 4 h.
C32_FirstEndingAfter ==
  probe.fn = "select" =>
     /\ IF EndingAfter(probe.t) = {} THEN probe.r = NoBessel
        ELSE /\ probe.r \in EndingAfter(probe.t)
             /\ \A j \in EndingAfter(probe.t) : probe.r <= j
     /\ probe.off = 4 * Hour => probe.r # probe.i
     /\ probe.r = NoBessel <=>
           ~TLess(probe.t, TAdd(all_bessel[Last].t0, WindowSecs))

C32_Witness ==
  /\ probe.fn = "select" /\ probe.off = 4 * Hour /\ probe.i = 1
  /\ probe.t = TAdd(all_bessel[1].t0, WindowSecs) /\ probe.r = 2

IsPowerOfTwo(n) == \E k \in 0 .. 20 : n = Pow2(k)

\* C38: for every canvas width and height >= 0 and resolution scale >= 1 the
\* raster allocated by loadData has power-of-two sides, and every tile
\* (x, y) with x < xMax, y < yMax, drawn at (256 x, 256 y), lies inside it.
C38_TilesInsideRaster ==
  probe.fn = "raster" =>
     /\ IsPowerOfTwo(probe.canvas[1]) /\ IsPowerOfTwo(probe.canvas[2])
     /\ \A x \in 0 .. probe.xMax - 1 : (x + 1) * 256 <= probe.canvas[1]
     /\ \A y \in 0 .. probe.yMax - 1 : (y + 1) * 256 <= probe.canvas[2]

C38_Witness ==
  /\ probe.fn = "raster" /\ probe.width = 513 /\ probe.rs = <<3, 2>>
  /\ probe.height = 0
  /\ probe.canvas = <<2048, 512>> /\ probe.xMax = 3 /\ probe.yMax = 1

\* C35: an update run by a closure whose generation differs from the layer's
\* (an update after context loss) applies no pending texture bind, calls
\* neither loadData nor the draw, touches no cache entry, and leaves no
\* timer armed.
C35_StaleUpdateInert ==
  (last.op = "update" /\ ~last.current) =>
     /\ last.bind = {}
     /\ closures[last.c].textureUpdate = last.e
     /\ last.load = 0 /\ last.alloc = 0 /\ last.fetch = 0
     /\ ~last.defer /\ last.cont = 0
     /\ last.ci = "same" /\ ~last.drew
     /\ last.deltat = Unset /\ last.now = <<>>
     /\ closures[last.c].updateTimeout = NoTimer
     /\ closures[last.c].timers = {}

C35_Witness ==
  /\ last.op = "update" /\ ~last.current /\ map
  /\ last.e # NoCity
  /\ last.timer # NoTimer

\* C39: a closure never has more than one update timer outstanding, and the
\* one it has is the one recorded in updateTimeout, whether update ran as the
\* update handler or from its own timer; an update that returned early (no
\* map, or stale generation) leaves none.
C39_OneTimerOutstanding ==
  /\ \A c \in 1 .. Len(closures) :
        /\ Cardinality(closures[c].timers) <= 1
        /\ closures[c].timers \subseteq {closures[c].updateTimeout}
  /\ (last.op = "update" /\ (~map \/ ~last.current)) =>
        closures[last.c].timers = {}

C39_Witness ==
  /\ last.op = "update" /\ last.timer = NoTimer /\ last.armed = 1
  /\ map /\ last.current /\ ~last.threw
  /\ Cardinality(closures[last.c].timers) = 1

\* loadedTextureInfo of the closure that owns the context is the textureInfo
\* of the bound raster (none published when none is bound)
InfoOfBound ==
  IF texture = NoCity
  THEN closures[handler].loadedTextureInfo = <<>>
  ELSE /\ cities[texture].owner = handler
       /\ closures[handler].loadedTextureInfo = <<cities[texture].textureInfo>>

\* the handler run that ends in the primed state bound a raster and
\* published its textureInfo, as a closure of the current generation
BoundTogether ==
  /\ last'.current
  /\ \E b \in last'.bind :
        /\ texture' = b.e
        /\ closures'[last'.c].loadedTextureInfo = <<cities'[b.e].textureInfo>>

\* C37 (as stated): in every reachable state loadedTextureInfo is the
\* textureInfo of the raster that is bound as the texture.
C37_InfoAlwaysOfBound == InfoOfBound

\* C37 (amended): while the context is not lost, loadedTextureInfo is the
\* textureInfo of the bound raster; the bound texture and loadedTextureInfo
\* change only together, in a dobindTexture of the active entry (a run that
\* binds nothing changes neither), apart from the loss of the context, which
\* takes the texture away.
C37_InfoOfBoundWhileLive ==
  /\ [](~contextLost => InfoOfBound)
  /\ [][/\ \A c \in 1 .. Len(closures) :
              closures'[c].loadedTextureInfo # closures[c].loadedTextureInfo
                 => BoundTogether /\ last'.c = c
        /\ (texture' # texture /\ ~ContextLostStep) => BoundTogether]_vars

C37_Witness ==
  /\ ~contextLost /\ last.op = "update"
  /\ \E b \in last.bind : ~b.first /\ texture = b.e /\ b.e > 1
  /\ closures[handler].loadedTextureInfo = <<cities[texture].textureInfo>>

\* the cache entries of closure c that still await images
Loading(c) == {e \in 1 .. Len(cities) : cities[e].owner = c /\ cities[e].pending > 0}

\* C33: within one context at most one cache entry has pending > 0, and it is
\* the active one; a run of loadData that allocated a raster found no active
\* entry or one with pending <= 0; so every image request in flight belongs
\* to the active entry of its closure, and a completion for an entry of the
\* current generation finds that entry active.
C33_OneEntryLoading ==
  /\ \A c \in 1 .. Len(closures) :
        /\ Cardinality(Loading(c)) <= 1
        /\ Loading(c) \subseteq {closures[c].loadedCity}
  /\ \A f \in inflight : closures[cities[f.e].owner].loadedCity = f.e
  /\ (last.alloc > 0 /\ last.lc # NoCity) => cities[last.lc].pending <= 0
  /\ (IsCallback /\ last.current) => last.active

C33_Witness ==
  /\ IsCallback /\ last.current /\ last.active /\ last.e = 2
  /\ cities[1].owner = cities[2].owner
  /\ cities[1].pending = 0 /\ cities[2].pending > 0
  /\ \E f \in inflight : f.e = 2

\* C34: in the variant without generation tokens the initial pending count of
\* a new entry equals the number of tile requests issued for it, for every
\* canvas width and height, so that pending <= 0 is reached on the last
\* completion only and the texture bind is set up once.
C34_VariantPendingCountsFetches ==
  probe.fn = "variant" =>
     /\ probe.pending[1] = probe.fetches * probe.pending[2]
     /\ probe.binds = 1

\* the active entry has the key of the viewport the map shows, all its images
\* have arrived and its raster is the bound texture
Settled ==
  LET lc == closures[handler].loadedCity
  IN /\ lc # NoCity
     /\ cities[lc].key = CityKey(view.v)
     /\ cities[lc].pending = 0
     /\ texture = lc

\* C36: if every image request completes, the context is not lost, the map
\* stays attached with zoom <= 8, update keeps running and the viewport stops
\* changing, then eventually, and from then on, the active entry has the key
\* of the final viewport, pending = 0, and its raster is the bound texture.
C36_SettlesOnFinalViewport == <>[]Settled
====
